---- MODULE Spec2Model ----
(***************************************************************************)
(* fastapi-pacer: the GCRA admission engine.                               *)
(*                                                                         *)
(* Limiter.check_policy derives the store keys of a request, hands them    *)
(* to the store adapter, and turns the reply into a RateLimitResult.  The  *)
(* decision itself is taken by a script that the store runs atomically.    *)
(* Times are integer milliseconds.                                         *)
(***************************************************************************)
EXTENDS Integers, Sequences, FiniteSets, TLC

VARIABLES
    clock,      \* wall clock shared by the limiter instances and the store (ms)
    cfg,        \* the configuration: the Policy in use and the identities of the clients
    store,      \* the store: key -> [present, tat, exp]; an absent key keeps the last TAT it held
    pc,         \* per check call: "idle", "sent" (script invocation in flight), "replied"
    req,        \* per check call: the request, its keys and the now_ms passed to the script
    res,        \* per check call: the reply of the script
    log,        \* script invocations in the order the store executed them
    metrics,    \* LimiterMetrics
    lim,        \* the Limiter: fail_mode, default policy set, _connected, holder of _connection_lock,
                \* and closed: shutdown() closed the connection and no startup() call came since
    adapter,    \* SimpleRedisStorage: _connected, script loaded, connect() calls made
    up,         \* the store is reachable
    fpc,        \* per caller: position in Limiter.startup / Limiter.check_policy
    fcall,      \* per caller: the call in progress and its arguments
    fout,       \* per caller: how the last call ended
    hooks,      \* number of on_decision and on_error invocations
    ncalls,     \* calls started and completed
    apc,        \* per caller: position in SimpleRedisStorage.check_rate_limit
    actr,       \* per caller: attempt, reloads, store calls, replies and charges of the call in progress
    aout,       \* per caller: how the last check_rate_limit call ended
    web,        \* the HTTP integration: expose_headers, fail_mode, policy passed, default policy set
    http,       \* the HTTP request being handled and the response sent for it
    sel         \* the requests the ip selector was applied to, with the principals returned

vars == <<clock, cfg, store, pc, req, res, log, metrics,
          lim, adapter, up, fpc, fcall, fout, hooks, ncalls, apc, actr, aout, web, http, sel>>

\* the state of the facade, and the state of the checks of the engine
facadeVars == <<lim, adapter, up, fpc, fcall, fout, hooks, ncalls>>
engineVars == <<clock, cfg, pc, req, res, log>>
adapterVars == <<apc, actr, aout>>
httpVars == <<web, http, sel>>

----------------------------------------------------------------------------
(* Bounds of the model *)

MaxTime == 4
NumProcs == 2
MaxOps == 4
MaxDelay == 3

Procs == 1..NumProcs

Max(a, b) == IF a >= b THEN a ELSE b
Min(a, b) == IF a <= b THEN a ELSE b

----------------------------------------------------------------------------
(* policies.py: Rate and Policy *)

Rate(permits, per, burst) == [permits |-> permits, per |-> per, burst |-> burst]

\* Rate._parse_duration on the duration strings used here: value * multiplier,
\* truncated to integer milliseconds.
ParseDuration(per) ==
    CASE per = "0.001s" -> 1
      [] per = "0.002s" -> 2
      [] per = "0.003s" -> 3
      [] per = "1s" -> 1000
      [] per = "2s" -> 2000

PeriodMs(rate) == ParseDuration(rate.per)

\* (mutation: permits and period swapped)
EmissionInverted(rate) == rate.permits \div PeriodMs(rate)

EmissionIntervalMs(rate) == PeriodMs(rate) \div rate.permits

\* (mutation: the burst count taken for milliseconds)
BurstAsCount(rate) == rate.burst

BurstCapacityMs(rate) == rate.burst * EmissionIntervalMs(rate)

\* (mutation: the keys live for the burst window only)
TtlBurstOnly(rate) == BurstCapacityMs(rate)

\* (mutation: the floor of two periods dropped)
TtlNoFloor(rate) == PeriodMs(rate) + BurstCapacityMs(rate)

TtlMs(rate) == Max(PeriodMs(rate) + BurstCapacityMs(rate), PeriodMs(rate) * 2)

\* Rate.__post_init__: permits positive, burst non-negative, and a duration
\* that parses to a non-zero number of milliseconds
RateAccepted(rate) ==
    /\ rate.permits > 0
    /\ rate.burst >= 0
    /\ ParseDuration(rate.per) # 0

RECURSIVE MaxOver(_, _)
MaxOver(f, n) == IF n = 1 THEN f[1] ELSE Max(f[n], MaxOver(f, n - 1))

MaxTtlMs(p) == MaxOver([i \in 1..Len(p) |-> TtlMs(p[i])], Len(p))

\* Policy.generate_keys: one key per rate; i is the 0-based position of the rate.
RateKey(app, scope, route, principal, i, rate) ==
    app \o ":" \o scope \o ":{" \o route \o "}:" \o principal
        \o ":r" \o ToString(i) \o ":" \o ToString(rate.permits) \o "/" \o rate.per

GenerateKeys(p, app, scope, route, principal) ==
    [i \in 1..Len(p) |-> RateKey(app, scope, route, principal, i - 1, p[i])]

----------------------------------------------------------------------------
(* The configurations explored *)

AppName == "fastapi"
RouteScope == "route"

PolBurst == <<Rate(1, "0.002s", 1)>>
PolTrunc == <<Rate(2, "0.003s", 0)>>
PolShort == <<Rate(1, "0.001s", 0)>>
PolZero  == <<Rate(2000, "1s", 0)>>
PolMulti == <<Rate(1, "0.002s", 0), Rate(1, "0.003s", 1)>>

\* (scope, principal) pairs of incoming requests
Ident(scope, principal) == [scope |-> scope, principal |-> principal]

IdA == Ident("/a", "c")
IdB == Ident("/a", "b}:c")
IdC == Ident("/a}:b", "c")

Config(p, ids) == [policy |-> p, idents |-> ids]

Configs ==
    {Config(PolBurst, {IdA}), Config(PolTrunc, {IdA}), Config(PolShort, {IdA}),
     Config(PolZero, {IdA}), Config(PolMulti, {IdA}), Config(PolShort, {IdB, IdC})}

KeysOf(p, id) == GenerateKeys(p, AppName, RouteScope, id.scope, id.principal)

AllKeys(c) == UNION {{KeysOf(c.policy, id)[i] : i \in 1..Len(c.policy)} : id \in c.idents}

----------------------------------------------------------------------------
(* The atomic decision script run by the store (GCRA, multi-rate) *)


\* Outcomes of the remaining computation when the emission interval is 0: the
\* division is undefined, the value returned is any of these.
UndefRemaining == {-1, 0}

\* (mutation: the stored TAT is never read)
StoredTATUnread(st, k, now) == now

\* step 1: read the stored TAT; a missing key reads as now_ms
StoredTAT(st, k, now) == IF st[k].present THEN st[k].tat ELSE now

RemainingOf(B, T, new_tat, now, u) ==
    IF T = 0 THEN u ELSE Max(0, (B - (new_tat - now)) \div T)

\* (mutation: the TAT moves back by T on admission)
RateVerdictBackwards(tat, T, B, now, u) ==
    LET allow_at == tat - B IN
    IF now < allow_at
    THEN [admit |-> FALSE, retry |-> allow_at - now, reset |-> tat - now,
          remaining |-> 0, new_tat |-> tat]
    ELSE [admit |-> TRUE, retry |-> 0, reset |-> T,
          remaining |-> RemainingOf(B, T, Max(tat, now) - T, now, u),
          new_tat |-> Max(tat, now) - T]

\* steps 2-4 for one rate
RateVerdict(tat, T, B, now, u) ==
    LET allow_at == tat - B IN
    IF now < allow_at
    THEN [admit |-> FALSE, retry |-> allow_at - now, reset |-> tat - now,
          remaining |-> 0, new_tat |-> tat]
    ELSE LET new_tat == Max(tat, now) + T IN
         [admit |-> TRUE, retry |-> 0, reset |-> new_tat - now,
          remaining |-> RemainingOf(B, T, new_tat, now, u), new_tat |-> new_tat]

\* evaluation of all rates, in order, without writing
Verdicts(st, keys, Ts, Bs, now, u) ==
    [i \in 1..Len(keys) |-> RateVerdict(StoredTAT(st, keys[i], now), Ts[i], Bs[i], now, u)]

Rejecting(v) == {i \in 1..Len(v) : ~v[i].admit}

\* the rates the script may report: largest retry among the rejecting rates,
\* else smallest remaining (ties are not ordered by the design)
MatchedSet(v) ==
    IF Rejecting(v) # {}
    THEN {i \in Rejecting(v) : \A j \in Rejecting(v) : v[j].retry <= v[i].retry}
    ELSE {i \in 1..Len(v) : \A j \in 1..Len(v) : v[i].remaining <= v[j].remaining}

\* reply array [allowed, retry_after_ms, reset_ms, remaining, matched_rate_index (1-based)]
ScriptReply(v, m) ==
    IF Rejecting(v) # {}
    THEN [allowed |-> FALSE, retry |-> v[m].retry, reset |-> v[m].reset,
          remaining |-> 0, idx |-> m]
    ELSE [allowed |-> TRUE, retry |-> 0, reset |-> v[m].reset,
          remaining |-> v[m].remaining, idx |-> m]

\* (mutation: every admitting rate is written, whatever the others decide)
ScriptWritePartial(st, keys, v, ttl, at) ==
    [k \in DOMAIN st |->
        IF \E i \in 1..Len(keys) : keys[i] = k /\ v[i].admit
        THEN LET i == CHOOSE j \in 1..Len(keys) : keys[j] = k IN
             [present |-> TRUE, tat |-> v[i].new_tat, exp |-> at + ttl]
        ELSE st[k]]

\* the writes: none when a rate rejects, else every new TAT with PEXPIRE ttl
ScriptWrite(st, keys, v, ttl, at) ==
    IF Rejecting(v) # {}
    THEN st
    ELSE [k \in DOMAIN st |->
            IF \E i \in 1..Len(keys) : keys[i] = k
            THEN LET i == CHOOSE j \in 1..Len(keys) : keys[j] = k IN
                 [present |-> TRUE, tat |-> v[i].new_tat, exp |-> at + ttl]
            ELSE st[k]]

\* keys whose TTL has run out are no longer visible
Expire(st, at) ==
    [k \in DOMAIN st |->
        IF st[k].present /\ st[k].exp <= at
        THEN [present |-> FALSE, tat |-> st[k].tat, exp |-> 0]
        ELSE st[k]]

----------------------------------------------------------------------------
(* The store adapter and the admission facade *)

NoReq == [id |-> Ident("", ""), now |-> 0]
NoRes == [allowed |-> FALSE, retry |-> 0, reset |-> 0, remaining |-> 0, idx |-> 0]

EmissionIntervals(p) == [i \in 1..Len(p) |-> EmissionIntervalMs(p[i])]
BurstCapacities(p) == [i \in 1..Len(p) |-> BurstCapacityMs(p[i])]

\* storage.check_policy: the reply of the script as the tuple handed to the
\* limiter, the matched index as a 0-based position
AdapterReply(r) == [r EXCEPT !.idx = r.idx - 1]

\* (mutation: retry and reset exchanged)
RateLimitResultSwapped(t) ==
    [allowed |-> t.allowed, retry_after_ms |-> t.reset, reset_ms |-> t.retry,
     remaining |-> t.remaining, matched_rate_index |-> t.idx]

\* Limiter.check_policy: the RateLimitResult built from the adapter's tuple
RateLimitResultOf(t) ==
    [allowed |-> t.allowed, retry_after_ms |-> t.retry, reset_ms |-> t.reset,
     remaining |-> t.remaining, matched_rate_index |-> t.idx]

\* SimpleRedisStorage.__init__: max_retries
MaxRetries == 1

\* a check_rate_limit call that has not called the store yet
NoTries == [attempt |-> 0, reloads |-> 0, calls |-> 0, replies |-> 0, charges |-> 0, now |-> 0]

\* response headers the limiter sets; -1 stands for a header that is absent
NoHeaders == [limit |-> -1, remaining |-> -1, reset |-> -1, retry_after |-> -1]

\* no HTTP integration in use; no request received yet
NoWeb == [expose_headers |-> TRUE, fail_mode |-> "open", given |-> TRUE, has_default |-> TRUE]
NoHttp ==
    [phase |-> "idle", entry |-> "none", excluded |-> FALSE, checks |-> 0, app_calls |-> 0,
     outcome |-> "none", result |-> RateLimitResultOf(NoRes), status |-> 0,
     body |-> "none", headers |-> NoHeaders]

\* no call in progress; no call ended yet
NoCall == [kind |-> "none", given |-> FALSE]
NoOut == [kind |-> "none", store |-> "none", hook |-> "none", exc |-> "none",
          result |-> RateLimitResultOf(NoRes)]

\* check calls started so far
Started ==
    metrics.requests_allowed + metrics.requests_blocked
        + Cardinality({p \in Procs : pc[p] # "idle"})

InitWith(configs) ==
    /\ clock = 0
    /\ cfg \in configs
    /\ store = [k \in AllKeys(cfg) |-> [present |-> FALSE, tat |-> 0, exp |-> 0]]
    /\ pc = [p \in Procs |-> "idle"]
    /\ req = [p \in Procs |-> NoReq]
    /\ res = [p \in Procs |-> NoRes]
    /\ log = <<>>
    /\ metrics = [requests_allowed |-> 0, requests_blocked |-> 0, redis_errors |-> 0]
    /\ lim = [fail_mode |-> "open", has_default |-> TRUE, connected |-> TRUE, lock |-> 0,
              closed |-> FALSE]
    /\ adapter = [connected |-> TRUE, loaded |-> TRUE, connects |-> 1]
    /\ up = TRUE
    /\ fpc = [p \in Procs |-> "idle"]
    /\ fcall = [p \in Procs |-> NoCall]
    /\ fout = [p \in Procs |-> NoOut]
    /\ hooks = [on_decision |-> 0, on_error |-> 0]
    /\ ncalls = [started |-> 0, done |-> 0]
    /\ apc = [p \in Procs |-> "idle"]
    /\ actr = [p \in Procs |-> NoTries]
    /\ aout = [p \in Procs |-> "none"]
    /\ web = NoWeb
    /\ http = NoHttp
    /\ sel = <<>>

Init == InitWith(Configs)

\* Limiter.check_policy up to the store round trip: principal and scope of the
\* request (its keys follow from them), and the adapter's reading of the clock.
Call(p, id) ==
    /\ pc[p] = "idle"
    /\ Started < MaxOps
    /\ pc' = [pc EXCEPT ![p] = "sent"]
    /\ req' = [req EXCEPT ![p] = [id |-> id, now |-> clock]]
    /\ UNCHANGED <<clock, cfg, store, res, log, metrics>>
    /\ UNCHANGED <<facadeVars, adapterVars, httpVars>>

\* The store runs the script: one atomic step.
Execute(p, logged) ==
    /\ pc[p] = "sent"
    /\ \E u \in UndefRemaining :
        LET r == req[p]
            keys == KeysOf(cfg.policy, r.id)
            v == Verdicts(store, keys, EmissionIntervals(cfg.policy),
                          BurstCapacities(cfg.policy), r.now, u)
        IN \E m \in MatchedSet(v) :
            /\ store' = ScriptWrite(store, keys, v, MaxTtlMs(cfg.policy), clock)
            /\ res' = [res EXCEPT ![p] = ScriptReply(v, m)]
            /\ log' = IF logged
                      THEN Append(log, [id |-> r.id, now |-> r.now, at |-> clock,
                                        allowed |-> Rejecting(v) = {},
                                        retry |-> ScriptReply(v, m).retry])
                      ELSE log
    /\ pc' = [pc EXCEPT ![p] = "replied"]
    /\ UNCHANGED <<clock, cfg, req, metrics>>
    /\ UNCHANGED <<facadeVars, adapterVars, httpVars>>

Exec(p) == Execute(p, FALSE)

ExecLogged(p) == Execute(p, TRUE)

\* Limiter.check_policy after the round trip: the verdict is counted and the
\* result returned.
Return(p) ==
    /\ pc[p] = "replied"
    /\ metrics' = IF res[p].allowed
                  THEN [metrics EXCEPT !.requests_allowed = @ + 1]
                  ELSE [metrics EXCEPT !.requests_blocked = @ + 1]
    /\ pc' = [pc EXCEPT ![p] = "idle"]
    /\ req' = [req EXCEPT ![p] = NoReq]
    /\ res' = [res EXCEPT ![p] = NoRes]
    /\ UNCHANGED <<clock, cfg, store, log>>
    /\ UNCHANGED <<facadeVars, adapterVars, httpVars>>

\* Time passes; an invocation reaches the store at most MaxDelay ms after the
\* adapter read the clock, and no time passes between a reply and the return
\* (no suspension point lies between them).
Tick ==
    /\ clock < MaxTime
    /\ \A p \in Procs : pc[p] = "sent" => clock - req[p].now < MaxDelay
    /\ \A p \in Procs : pc[p] # "replied"
    /\ clock' = clock + 1
    /\ store' = Expire(store, clock + 1)
    /\ UNCHANGED <<cfg, pc, req, res, log, metrics>>
    /\ UNCHANGED <<facadeVars, adapterVars, httpVars>>

Next ==
    \/ \E p \in Procs, id \in cfg.idents : Call(p, id)
    \/ \E p \in Procs : Exec(p)
    \/ \E p \in Procs : Return(p)
    \/ Tick

Spec == Init /\ [][Next]_vars

\* The same system on one (scope, principal), with the store's record of the
\* script invocations in the order it executed them.
InitHist == InitWith({c \in Configs : Cardinality(c.idents) = 1})

NextHist ==
    \/ \E p \in Procs, id \in cfg.idents : Call(p, id)
    \/ \E p \in Procs : ExecLogged(p)
    \/ \E p \in Procs : Return(p)
    \/ Tick

SpecHist == InitHist /\ [][NextHist]_vars

\* Two limiter instances on one store, each reading its own clock: the clock
\* of the first is the store's, the clock of the others is ahead of it by a
\* constant number of milliseconds.
MaxSkew == 2

SkewConfigs ==
    {[policy |-> pol, idents |-> {IdA}, skew |-> s] :
        pol \in {PolBurst, PolShort}, s \in 0..MaxSkew}

\* int(time.time() * 1000) on the host of instance p
LocalNowMs(p) == IF p = 1 THEN clock ELSE clock + cfg.skew

InitSkew == InitWith(SkewConfigs)

\* check_rate_limit on instance p: now_ms is read from the local clock and
\* passed to the script
CallSkewed(p, id) ==
    /\ pc[p] = "idle"
    /\ Started < MaxOps
    /\ pc' = [pc EXCEPT ![p] = "sent"]
    /\ req' = [req EXCEPT ![p] = [id |-> id, now |-> LocalNowMs(p)]]
    /\ UNCHANGED <<clock, cfg, store, res, log, metrics>>
    /\ UNCHANGED <<facadeVars, adapterVars, httpVars>>

\* Time passes while no check is under way (the round trips take no time
\* here, so that the clocks are the only thing that differs).
TickSkew ==
    /\ clock < MaxTime
    /\ \A p \in Procs : pc[p] = "idle"
    /\ clock' = clock + 1
    /\ store' = Expire(store, clock + 1)
    /\ UNCHANGED <<cfg, pc, req, res, log, metrics>>
    /\ UNCHANGED <<facadeVars, adapterVars, httpVars>>

NextSkew ==
    \/ \E p \in Procs, id \in cfg.idents : CallSkewed(p, id)
    \/ \E p \in Procs : ExecLogged(p)
    \/ \E p \in Procs : Return(p)
    \/ TickSkew

SpecSkew == InitSkew /\ [][NextSkew]_vars

----------------------------------------------------------------------------
(* limiter.py: the admission facade, its startup and its failure handling *)

PolWide == <<Rate(1, "0.002s", 1), Rate(2, "0.003s", 0)>>

FacadeConfigs == {Config(PolWide, {IdA})}

\* Limiter.__init__: the validation of fail_mode and route_scope
LimiterAccepts(fail_mode, route_scope) ==
    /\ fail_mode \in {"open", "closed"}
    /\ route_scope \in {"route", "method", "app"}

\* constructor arguments tried: fail_mode, route_scope, default_policy given
LimiterArgs ==
    {[fail_mode |-> f, route_scope |-> r, has_default |-> d] :
        f \in {"open", "closed", "half"}, r \in {RouteScope, "global"}, d \in BOOLEAN}

MaxPermits(p) == MaxOver([i \in 1..Len(p) |-> p[i].permits], Len(p))

\* (mutation: the permits of the first rate)
FailModeResultFirstRate(fail_mode, p) ==
    IF fail_mode = "open"
    THEN [allowed |-> TRUE, retry_after_ms |-> 0, reset_ms |-> 0,
          remaining |-> p[1].permits, matched_rate_index |-> 0]
    ELSE [allowed |-> FALSE, retry_after_ms |-> 1000, reset_ms |-> 1000,
          remaining |-> 0, matched_rate_index |-> 0]

\* Limiter.check_policy: the result applied when the store call failed
FailModeResult(fail_mode, p) ==
    IF fail_mode = "open"
    THEN [allowed |-> TRUE, retry_after_ms |-> 0, reset_ms |-> 0,
          remaining |-> MaxPermits(p), matched_rate_index |-> 0]
    ELSE [allowed |-> FALSE, retry_after_ms |-> 1000, reset_ms |-> 1000,
          remaining |-> 0, matched_rate_index |-> 0]

\* (mutation: the lock does not exclude)
LockIgnored(holder) == TRUE

\* `async with self._connection_lock`: entered when no caller holds the lock
LockFree(holder) == holder = 0

\* (mutation: a failed startup is never raised)
StartupSwallowsAlways(fail_mode) == FALSE

\* Limiter.startup: a failed connect is raised again only when failing closed
StartupRaises(fail_mode) == fail_mode = "closed"

\* (mutation: an exception of on_decision reaches the outer handler)
DecisionHookUnguarded(hook) == hook = "raised"

\* Limiter.check_policy: on_decision runs inside its own try/except, so its
\* exception never reaches the handler of store errors
DecisionHookEscapes(hook) == FALSE

\* (mutation: every exception is handled by the facade)
CaughtAll(exc) == TRUE

\* `except Exception` in check_policy: asyncio.CancelledError derives from
\* BaseException and is not caught
Caught(exc) == exc # "cancelled"

\* (mutation: every verdict is counted as an admission)
CountVerdictAsAllowed(m, allowed) == [m EXCEPT !.requests_allowed = @ + 1]

\* Limiter.check_policy: the counter of a verdict
CountVerdict(m, allowed) ==
    IF allowed THEN [m EXCEPT !.requests_allowed = @ + 1]
    ELSE [m EXCEPT !.requests_blocked = @ + 1]

\* Limiter.check_policy: the counter of a failed store call
CountError(m) == [m EXCEPT !.redis_errors = @ + 1]

\* (mutation: check_policy never starts the limiter)
StartupSkipped(connected) == FALSE

\* Limiter.check_policy: `if not self._connected: await self.startup()`
ImplicitStartup(connected) == ~connected

InitFacade ==
    /\ clock = 0
    /\ cfg \in FacadeConfigs
    /\ store = [k \in AllKeys(cfg) |-> [present |-> FALSE, tat |-> 0, exp |-> 0]]
    /\ pc = [p \in Procs |-> "idle"]
    /\ req = [p \in Procs |-> NoReq]
    /\ res = [p \in Procs |-> NoRes]
    /\ log = <<>>
    /\ metrics = [requests_allowed |-> 0, requests_blocked |-> 0, redis_errors |-> 0]
    /\ \E a \in {x \in LimiterArgs : LimiterAccepts(x.fail_mode, x.route_scope)} :
          lim = [fail_mode |-> a.fail_mode, has_default |-> a.has_default,
                 connected |-> FALSE, lock |-> 0, closed |-> FALSE]
    /\ adapter = [connected |-> FALSE, loaded |-> FALSE, connects |-> 0]
    /\ up \in BOOLEAN
    /\ fpc = [p \in Procs |-> "idle"]
    /\ fcall = [p \in Procs |-> NoCall]
    /\ fout = [p \in Procs |-> NoOut]
    /\ hooks = [on_decision |-> 0, on_error |-> 0]
    /\ ncalls = [started |-> 0, done |-> 0]
    /\ apc = [p \in Procs |-> "idle"]
    /\ actr = [p \in Procs |-> NoTries]
    /\ aout = [p \in Procs |-> "none"]
    /\ web = NoWeb
    /\ http = NoHttp
    /\ sel = <<>>

\* the call of p ends with outcome o
Finish(p, o) ==
    /\ fpc' = [fpc EXCEPT ![p] = "idle"]
    /\ fout' = [fout EXCEPT ![p] = o]
    /\ ncalls' = [ncalls EXCEPT !.done = @ + 1]

Raised(exc, so) == [NoOut EXCEPT !.kind = "raised", !.exc = exc, !.store = so]

\* startup is over for p without an exception: an explicit startup() returns,
\* check_policy goes on to its policy
AfterStartup(p, so) ==
    IF fcall[p].kind = "startup"
    THEN Finish(p, [NoOut EXCEPT !.kind = "returned", !.store = so])
    ELSE /\ fpc' = [fpc EXCEPT ![p] = "policy"]
         /\ fout' = [fout EXCEPT ![p].store = so]
         /\ UNCHANGED ncalls

\* check_policy is called; an unconnected limiter goes through startup first
FCheck(p, given) ==
    /\ fpc[p] = "idle"
    /\ ncalls.started < MaxOps
    /\ ncalls' = [ncalls EXCEPT !.started = @ + 1]
    /\ fcall' = [fcall EXCEPT ![p] = [kind |-> "check", given |-> given]]
    /\ fout' = [fout EXCEPT ![p] = NoOut]
    /\ fpc' = [fpc EXCEPT ![p] = IF ImplicitStartup(lim.connected) THEN "startup" ELSE "policy"]
    /\ UNCHANGED <<lim, adapter, up, hooks, store, metrics>>
    /\ UNCHANGED <<engineVars, adapterVars, httpVars>>

\* startup() is called by the application
FStartup(p) ==
    /\ fpc[p] = "idle"
    /\ ncalls.started < MaxOps
    /\ ncalls' = [ncalls EXCEPT !.started = @ + 1]
    /\ fcall' = [fcall EXCEPT ![p] = [kind |-> "startup", given |-> FALSE]]
    /\ fout' = [fout EXCEPT ![p] = NoOut]
    /\ fpc' = [fpc EXCEPT ![p] = "startup"]
    /\ lim' = [lim EXCEPT !.closed = FALSE]
    /\ UNCHANGED <<adapter, up, hooks, store, metrics>>
    /\ UNCHANGED <<engineVars, adapterVars, httpVars>>

\* Limiter.startup: the lock is taken; a connected limiter leaves at once,
\* otherwise storage.connect() is started
FLock(p) ==
    /\ fpc[p] = "startup"
    /\ LockFree(lim.lock)
    /\ IF lim.connected
       THEN /\ AfterStartup(p, "none")
            /\ UNCHANGED <<lim, adapter>>
       ELSE /\ lim' = [lim EXCEPT !.lock = p,
                                  !.closed = IF fcall[p].kind = "startup" THEN FALSE ELSE @]
            /\ adapter' = [adapter EXCEPT !.connects = @ + 1]
            /\ fpc' = [fpc EXCEPT ![p] = "connect"]
            /\ UNCHANGED <<fout, ncalls>>
    /\ UNCHANGED <<fcall, up, hooks, store, metrics>>
    /\ UNCHANGED <<engineVars, adapterVars, httpVars>>

\* storage.connect() ends: ping and script load done, or the ping failed, or
\* the script load failed after the adapter had marked itself connected
FConnect(p, how) ==
    /\ fpc[p] = "connect"
    /\ how \in (IF up THEN {"ok"} ELSE {"fail_ping", "fail_load"})
    /\ adapter' = CASE how = "ok" -> [adapter EXCEPT !.connected = TRUE, !.loaded = TRUE]
                    [] how = "fail_ping" -> adapter
                    [] how = "fail_load" -> [adapter EXCEPT !.connected = TRUE]
    /\ lim' = [lim EXCEPT !.lock = 0, !.connected = (how = "ok")]
    /\ IF how = "ok" THEN AfterStartup(p, "none")
       ELSE IF StartupRaises(lim.fail_mode) THEN Finish(p, Raised("store", "error"))
       ELSE AfterStartup(p, "error")
    /\ UNCHANGED <<fcall, up, hooks, store, metrics>>
    /\ UNCHANGED <<engineVars, adapterVars, httpVars>>

\* check_policy: the policy of the call or the default one, then the keys and
\* the call of the store adapter
FPolicy(p) ==
    /\ fpc[p] = "policy"
    /\ IF ~fcall[p].given /\ ~lim.has_default
       THEN Finish(p, Raised("config", fout[p].store))
       ELSE /\ fpc' = [fpc EXCEPT ![p] = "store"]
            /\ UNCHANGED <<fout, ncalls>>
    /\ UNCHANGED <<lim, adapter, up, fcall, hooks, store, metrics>>
    /\ UNCHANGED <<engineVars, adapterVars, httpVars>>

\* what the store round trip of a check can do
StoreOutcomes ==
    {"error", "cancelled"}
        \cup (IF adapter.connected /\ adapter.loaded /\ up THEN {"verdict"} ELSE {})

\* check_policy from the reply of the adapter to its return: counters, result,
\* hook, and the fail mode when the call raised
FStore(p, so, hook) ==
    /\ fpc[p] = "store"
    /\ so \in StoreOutcomes
    /\ CASE so = "verdict" ->
              \E u \in UndefRemaining :
                LET keys == KeysOf(cfg.policy, IdA)
                    v == Verdicts(store, keys, EmissionIntervals(cfg.policy),
                                  BurstCapacities(cfg.policy), clock, u)
                IN \E m \in MatchedSet(v) :
                    LET out == RateLimitResultOf(AdapterReply(ScriptReply(v, m)))
                        fell == DecisionHookEscapes(hook)
                    IN /\ store' = ScriptWrite(store, keys, v, MaxTtlMs(cfg.policy), clock)
                       /\ metrics' = IF fell
                                     THEN CountError(CountVerdict(metrics, out.allowed))
                                     ELSE CountVerdict(metrics, out.allowed)
                       /\ hooks' = [hooks EXCEPT !.on_decision = @ + 1,
                                                 !.on_error = IF fell THEN @ + 1 ELSE @]
                       /\ Finish(p, [kind |-> "result", store |-> so, hook |-> hook,
                                     exc |-> "none",
                                     result |-> IF fell
                                                THEN FailModeResult(lim.fail_mode, cfg.policy)
                                                ELSE out])
         [] OTHER ->
              IF Caught(so)
              THEN /\ metrics' = CountError(metrics)
                   /\ hooks' = [hooks EXCEPT !.on_error = @ + 1]
                   /\ Finish(p, [kind |-> "result", store |-> so, hook |-> hook,
                                 exc |-> "none",
                                 result |-> FailModeResult(lim.fail_mode, cfg.policy)])
                   /\ UNCHANGED store
              ELSE /\ Finish(p, Raised(so, so))
                   /\ UNCHANGED <<store, metrics, hooks>>
    /\ UNCHANGED <<lim, adapter, up, fcall>>
    /\ UNCHANGED <<engineVars, adapterVars, httpVars>>

\* the store becomes unreachable, or reachable again
StoreFlip ==
    /\ up' = ~up
    /\ UNCHANGED <<lim, adapter, fpc, fcall, fout, hooks, ncalls, store, metrics>>
    /\ UNCHANGED <<engineVars, adapterVars, httpVars>>

NextFacade ==
    \/ \E p \in Procs, given \in BOOLEAN : FCheck(p, given)
    \/ \E p \in Procs : FStartup(p)
    \/ \E p \in Procs : FLock(p)
    \/ \E p \in Procs, how \in {"ok", "fail_ping", "fail_load"} : FConnect(p, how)
    \/ \E p \in Procs : FPolicy(p)
    \/ \E p \in Procs, so \in {"verdict", "error", "cancelled"}, hook \in {"ok", "raised"} :
          FStore(p, so, hook)
    \/ StoreFlip

SpecFacade == InitFacade /\ [][NextFacade]_vars

\* the attributes a SimpleRedisStorage instance has
StorageAttributes ==
    {"redis_url", "connect_timeout", "command_timeout", "max_retries",
     "_client", "_script_sha", "_script_content", "_connected"}

\* (mutation: is_healthy pings the client the adapter holds)
HealthyReadsClient(connected, reachable) ==
    IF ~connected THEN FALSE
    ELSE IF "_client" \notin StorageAttributes THEN FALSE
    ELSE reachable

\* Limiter.is_healthy: false when not connected; else `self.storage.redis` is
\* read and pinged inside try/except Exception, and an exception gives false
HealthyResult(connected, reachable) ==
    IF ~connected THEN FALSE
    ELSE IF "redis" \notin StorageAttributes THEN FALSE
    ELSE reachable

\* Limiter.shutdown: under the lock, a connected limiter disconnects the
\* adapter (the loaded script's SHA is kept) and clears _connected
FShutdown(p) ==
    /\ fpc[p] = "idle"
    /\ ncalls.started < MaxOps
    /\ LockFree(lim.lock)
    /\ ncalls' = [ncalls EXCEPT !.started = @ + 1, !.done = @ + 1]
    /\ fcall' = [fcall EXCEPT ![p] = [kind |-> "shutdown", given |-> FALSE]]
    /\ fout' = [fout EXCEPT ![p] = [NoOut EXCEPT !.kind = "returned"]]
    /\ IF lim.connected
       THEN /\ lim' = [lim EXCEPT !.connected = FALSE, !.closed = TRUE]
            /\ adapter' = [adapter EXCEPT !.connected = FALSE]
       ELSE UNCHANGED <<lim, adapter>>
    /\ UNCHANGED <<fpc, up, hooks, store, metrics>>
    /\ UNCHANGED <<engineVars, adapterVars, httpVars>>

\* Limiter.is_healthy is called
FHealthy(p) ==
    /\ fpc[p] = "idle"
    /\ ncalls.started < MaxOps
    /\ ncalls' = [ncalls EXCEPT !.started = @ + 1]
    /\ fcall' = [fcall EXCEPT ![p] = [kind |-> "is_healthy", given |-> FALSE]]
    /\ fout' = [fout EXCEPT ![p] = NoOut]
    /\ fpc' = [fpc EXCEPT ![p] = "health"]
    /\ UNCHANGED <<lim, adapter, up, hooks, store, metrics>>
    /\ UNCHANGED <<engineVars, adapterVars, httpVars>>

\* Limiter.is_healthy returns
FHealthyReturn(p) ==
    /\ fpc[p] = "health"
    /\ Finish(p, [NoOut EXCEPT !.kind = IF HealthyResult(lim.connected, up)
                                        THEN "healthy" ELSE "unhealthy"])
    /\ UNCHANGED <<lim, adapter, fcall, up, hooks, store, metrics>>
    /\ UNCHANGED <<engineVars, adapterVars, httpVars>>

\* the facade with its whole lifecycle: startup, checks, health, shutdown
NextLife ==
    \/ NextFacade
    \/ \E p \in Procs : FShutdown(p)
    \/ \E p \in Procs : FHealthy(p)
    \/ \E p \in Procs : FHealthyReturn(p)

SpecLife == InitFacade /\ [][NextLife]_vars

\* The limiter failing open after a startup() that failed on an unreachable
\* store: storage.connect() failed at the ping, or at the script load.
DegradedAdapters ==
    {[connected |-> FALSE, loaded |-> FALSE, connects |-> 1],
     [connected |-> TRUE, loaded |-> FALSE, connects |-> 1]}

InitRecover ==
    /\ clock = 0
    /\ cfg \in FacadeConfigs
    /\ store = [k \in AllKeys(cfg) |-> [present |-> FALSE, tat |-> 0, exp |-> 0]]
    /\ pc = [p \in Procs |-> "idle"]
    /\ req = [p \in Procs |-> NoReq]
    /\ res = [p \in Procs |-> NoRes]
    /\ log = <<>>
    /\ metrics = [requests_allowed |-> 0, requests_blocked |-> 0, redis_errors |-> 0]
    /\ \E d \in BOOLEAN :
          lim = [fail_mode |-> "open", has_default |-> d, connected |-> FALSE, lock |-> 0,
                 closed |-> FALSE]
    /\ adapter \in DegradedAdapters
    /\ up = FALSE
    /\ fpc = [p \in Procs |-> "idle"]
    /\ fcall = [p \in Procs |-> NoCall]
    /\ fout = [p \in Procs |-> NoOut]
    /\ hooks = [on_decision |-> 0, on_error |-> 0]
    /\ ncalls = [started |-> 0, done |-> 0]
    /\ apc = [p \in Procs |-> "idle"]
    /\ actr = [p \in Procs |-> NoTries]
    /\ aout = [p \in Procs |-> "none"]
    /\ web = NoWeb
    /\ http = NoHttp
    /\ sel = <<>>

\* the store round trip of a check when nothing but the connection state
\* decides it: the store answers a connected adapter, the call fails otherwise
Answer == IF "verdict" \in StoreOutcomes THEN "verdict" ELSE "error"

\* the store becomes reachable, and stays so
StoreRecovers == ~up /\ StoreFlip

\* checks only: no startup() call is made
NextRecover ==
    \/ \E p \in Procs, given \in BOOLEAN : FCheck(p, given)
    \/ \E p \in Procs : FLock(p)
    \/ \E p \in Procs, how \in {"ok", "fail_ping", "fail_load"} : FConnect(p, how)
    \/ \E p \in Procs : FPolicy(p)
    \/ \E p \in Procs, hook \in {"ok", "raised"} : FStore(p, Answer, hook)
    \/ StoreRecovers

\* a call that was started runs on: the event loop resumes every coroutine
\* that can continue
SpecRecover ==
    /\ InitRecover /\ [][NextRecover]_vars
    /\ WF_vars(\E p \in Procs : FLock(p))
    /\ WF_vars(\E p \in Procs, how \in {"ok", "fail_ping", "fail_load"} : FConnect(p, how))
    /\ WF_vars(\E p \in Procs : FPolicy(p))
    /\ WF_vars(\E p \in Procs, hook \in {"ok", "raised"} : FStore(p, Answer, hook))

----------------------------------------------------------------------------
(* storage_simple.py: check_rate_limit, its script reload and its retries *)

\* the adapter as connect() can leave it: connected with the script loaded,
\* never connected, or connected with the script load failed
AdapterStates ==
    {[connected |-> TRUE, loaded |-> TRUE, connects |-> 1],
     [connected |-> FALSE, loaded |-> FALSE, connects |-> 0],
     [connected |-> TRUE, loaded |-> FALSE, connects |-> 1]}

InitAdapter ==
    /\ clock = 0
    /\ cfg \in FacadeConfigs
    /\ store = [k \in AllKeys(cfg) |-> [present |-> FALSE, tat |-> 0, exp |-> 0]]
    /\ pc = [p \in Procs |-> "idle"]
    /\ req = [p \in Procs |-> NoReq]
    /\ res = [p \in Procs |-> NoRes]
    /\ log = <<>>
    /\ metrics = [requests_allowed |-> 0, requests_blocked |-> 0, redis_errors |-> 0]
    /\ lim = [fail_mode |-> "open", has_default |-> TRUE, connected |-> TRUE, lock |-> 0,
              closed |-> FALSE]
    /\ adapter \in AdapterStates
    /\ up = TRUE
    /\ fpc = [p \in Procs |-> "idle"]
    /\ fcall = [p \in Procs |-> NoCall]
    /\ fout = [p \in Procs |-> NoOut]
    /\ hooks = [on_decision |-> 0, on_error |-> 0]
    /\ ncalls = [started |-> 0, done |-> 0]
    /\ apc = [p \in Procs |-> "idle"]
    /\ actr = [p \in Procs |-> NoTries]
    /\ aout = [p \in Procs |-> "none"]
    /\ web = NoWeb
    /\ http = NoHttp
    /\ sel = <<>>

adapterFrame ==
    UNCHANGED <<clock, cfg, pc, req, res, log, metrics,
                lim, adapter, up, fpc, fcall, fout, hooks, web, http, sel>>

\* the key and the rate check_rate_limit is called with
AKey == KeysOf(cfg.policy, IdA)[1]
ARate == cfg.policy[1]

\* the script run by the store on the one key of check_rate_limit, with the
\* now_ms the call read before its first attempt
AVerdicts(st, now) ==
    Verdicts(st, <<AKey>>, <<EmissionIntervalMs(ARate)>>, <<BurstCapacityMs(ARate)>>, now, 0)

AScript(st, now) == ScriptWrite(st, <<AKey>>, AVerdicts(st, now), TtlMs(ARate), clock)

\* the call's counters after one EVALSHA: ran tells whether the store ran the
\* script, answered whether its reply reached the adapter
AfterEval(tries, st, ran, answered) ==
    [tries EXCEPT !.calls = @ + 1,
                  !.replies = IF answered THEN @ + 1 ELSE @,
                  !.charges = IF ran /\ Rejecting(AVerdicts(st, tries.now)) = {}
                              THEN @ + 1 ELSE @]

\* check_rate_limit returns the verdict, or raises
AReturn(p, how) ==
    /\ apc' = [apc EXCEPT ![p] = "idle"]
    /\ aout' = [aout EXCEPT ![p] = how]
    /\ ncalls' = [ncalls EXCEPT !.done = @ + 1]

\* (mutation: when the attempts are used up the call returns as if admitted)
ARetrySwallows(p, tries) ==
    IF tries.attempt < MaxRetries
    THEN /\ apc' = [apc EXCEPT ![p] = "eval"]
         /\ actr' = [actr EXCEPT ![p] = [tries EXCEPT !.attempt = @ + 1]]
         /\ UNCHANGED <<aout, ncalls>>
    ELSE /\ actr' = [actr EXCEPT ![p] = tries]
         /\ AReturn(p, "verdict")

\* `except (ConnectionError, TimeoutError)`: the next attempt after the
\* backoff while attempts are left, else the error is raised
ARetry(p, tries) ==
    IF tries.attempt < MaxRetries
    THEN /\ apc' = [apc EXCEPT ![p] = "eval"]
         /\ actr' = [actr EXCEPT ![p] = [tries EXCEPT !.attempt = @ + 1]]
         /\ UNCHANGED <<aout, ncalls>>
    ELSE /\ actr' = [actr EXCEPT ![p] = tries]
         /\ AReturn(p, "error")

\* check_rate_limit is called: RuntimeError when the adapter is not
\* connected, else now_ms is read and the first attempt starts
ACall(p) ==
    /\ apc[p] = "idle"
    /\ ncalls.started < MaxOps
    /\ actr' = [actr EXCEPT ![p] = [NoTries EXCEPT !.now = clock]]
    /\ IF adapter.connected
       THEN /\ ncalls' = [ncalls EXCEPT !.started = @ + 1]
            /\ apc' = [apc EXCEPT ![p] = "eval"]
            /\ aout' = [aout EXCEPT ![p] = "none"]
       ELSE /\ ncalls' = [ncalls EXCEPT !.started = @ + 1, !.done = @ + 1]
            /\ apc' = apc
            /\ aout' = [aout EXCEPT ![p] = "error"]
    /\ store' = store
    /\ adapterFrame

\* what becomes of an EVALSHA: a reply, NoScriptError, a transport error
\* before the store ran the script ("transport") or after it ("lost"), or
\* another ResponseError
EvalReplies == {"ok", "noscript", "transport", "lost", "response"}

\* the first EVALSHA of an attempt; _execute_script_sha raises RuntimeError
\* without calling the store when no script is loaded
AEval(p, reply) ==
    /\ apc[p] = "eval"
    /\ IF ~adapter.loaded
       THEN /\ actr' = actr
            /\ store' = store
            /\ AReturn(p, "error")
       ELSE LET ran == reply \in {"ok", "lost"}
                tries == AfterEval(actr[p], store, ran, reply = "ok")
            IN /\ store' = IF ran THEN AScript(store, actr[p].now) ELSE store
               /\ CASE reply = "ok" ->
                          actr' = [actr EXCEPT ![p] = tries] /\ AReturn(p, "verdict")
                    [] reply = "noscript" ->
                          /\ actr' = [actr EXCEPT ![p] = tries]
                          /\ apc' = [apc EXCEPT ![p] = "load"]
                          /\ UNCHANGED <<aout, ncalls>>
                    [] reply \in {"transport", "lost"} -> ARetry(p, tries)
                    [] reply = "response" ->
                          actr' = [actr EXCEPT ![p] = tries] /\ AReturn(p, "error")
    /\ adapterFrame

\* _load_script in the NoScriptError handler comes back: loaded (EVALSHA is
\* sent again), or a transport error
ALoad(p, reply) ==
    /\ apc[p] = "load"
    /\ LET tries == [actr[p] EXCEPT !.calls = @ + 1, !.reloads = @ + 1]
       IN CASE reply = "ok" ->
                  /\ actr' = [actr EXCEPT ![p] = tries]
                  /\ apc' = [apc EXCEPT ![p] = "eval2"]
                  /\ UNCHANGED <<aout, ncalls>>
            [] reply = "transport" -> ARetry(p, tries)
    /\ store' = store
    /\ adapterFrame

\* the EVALSHA sent after the reload comes back; NoScriptError is a
\* ResponseError and is raised
AEvalAgain(p, reply) ==
    /\ apc[p] = "eval2"
    /\ LET ran == reply \in {"ok", "lost"}
           tries == AfterEval(actr[p], store, ran, reply = "ok")
       IN /\ store' = IF ran THEN AScript(store, actr[p].now) ELSE store
          /\ CASE reply = "ok" ->
                     actr' = [actr EXCEPT ![p] = tries] /\ AReturn(p, "verdict")
               [] reply \in {"noscript", "response"} ->
                     actr' = [actr EXCEPT ![p] = tries] /\ AReturn(p, "error")
               [] reply \in {"transport", "lost"} -> ARetry(p, tries)
    /\ adapterFrame

NextAdapter ==
    \/ \E p \in Procs : ACall(p)
    \/ \E p \in Procs, reply \in EvalReplies : AEval(p, reply)
    \/ \E p \in Procs, reply \in {"ok", "transport"} : ALoad(p, reply)
    \/ \E p \in Procs, reply \in EvalReplies : AEvalAgain(p, reply)

SpecAdapter == InitAdapter /\ [][NextAdapter]_vars

----------------------------------------------------------------------------
(* storage_simple.py and storage.py: connect() and disconnect() *)

\* SimpleRedisStorage.__init__ and the RedisStorage wrapper around it: no
\* client, no script SHA, not connected; client is "none", "unopened" (built
\* by from_url, the ping failed), "open" or "closed"; last tells how the last
\* connect() or disconnect() ended; wrapped is RedisStorage._connected
NewAdapter ==
    [connected |-> FALSE, loaded |-> FALSE, connects |-> 0, client |-> "none",
     last |-> "none", wrapped |-> FALSE]

InitConn ==
    /\ clock = 0
    /\ cfg \in FacadeConfigs
    /\ store = [k \in AllKeys(cfg) |-> [present |-> FALSE, tat |-> 0, exp |-> 0]]
    /\ pc = [p \in Procs |-> "idle"]
    /\ req = [p \in Procs |-> NoReq]
    /\ res = [p \in Procs |-> NoRes]
    /\ log = <<>>
    /\ metrics = [requests_allowed |-> 0, requests_blocked |-> 0, redis_errors |-> 0]
    /\ lim = [fail_mode |-> "open", has_default |-> TRUE, connected |-> FALSE, lock |-> 0,
              closed |-> FALSE]
    /\ adapter = NewAdapter
    /\ up \in BOOLEAN
    /\ fpc = [p \in Procs |-> "idle"]
    /\ fcall = [p \in Procs |-> NoCall]
    /\ fout = [p \in Procs |-> NoOut]
    /\ hooks = [on_decision |-> 0, on_error |-> 0]
    /\ ncalls = [started |-> 0, done |-> 0]
    /\ apc = [p \in Procs |-> "idle"]
    /\ actr = [p \in Procs |-> NoTries]
    /\ aout = [p \in Procs |-> "none"]
    /\ web = NoWeb
    /\ http = NoHttp
    /\ sel = <<>>

connFrame ==
    UNCHANGED <<clock, cfg, store, pc, req, res, log, metrics, lim, up,
                fpc, fcall, fout, hooks, apc, actr, aout, web, http, sel>>

\* RedisStorage.connect -> SimpleRedisStorage.connect: a new client is built,
\* then the ping, then `_connected = True`, then the script load; an exception
\* of the ping or of the load is raised again and nothing is taken back; the
\* wrapper copies the flag only when the call returned
SConnect(how) ==
    /\ ncalls.started < MaxOps
    /\ how \in (IF up THEN {"ok"} ELSE {"fail_ping", "fail_load"})
    /\ ncalls' = [started |-> ncalls.started + 1, done |-> ncalls.done + 1]
    /\ adapter' =
         CASE how = "ok" ->
                [adapter EXCEPT !.client = "open", !.connected = TRUE, !.loaded = TRUE,
                                !.connects = @ + 1, !.last = "returned", !.wrapped = TRUE]
           [] how = "fail_ping" ->
                [adapter EXCEPT !.client = "unopened", !.connects = @ + 1, !.last = "raised"]
           [] how = "fail_load" ->
                [adapter EXCEPT !.client = "open", !.connected = TRUE,
                                !.connects = @ + 1, !.last = "raised"]
    /\ connFrame

\* RedisStorage.disconnect -> SimpleRedisStorage.disconnect: a client, if
\* there is one, is closed and `_connected` cleared; the SHA is kept
SDisconnect ==
    /\ ncalls.started < MaxOps
    /\ ncalls' = [started |-> ncalls.started + 1, done |-> ncalls.done + 1]
    /\ adapter' =
         IF adapter.client # "none"
         THEN [adapter EXCEPT !.client = "closed", !.connected = FALSE,
                              !.last = "returned", !.wrapped = FALSE]
         ELSE [adapter EXCEPT !.last = "returned", !.wrapped = FALSE]
    /\ connFrame

NextConn ==
    \/ \E how \in {"ok", "fail_ping", "fail_load"} : SConnect(how)
    \/ SDisconnect
    \/ StoreFlip

SpecConn == InitConn /\ [][NextConn]_vars

----------------------------------------------------------------------------
(* middleware.py, dependencies.py and Limiter.add_headers: the HTTP layer *)

PolThree == <<Rate(1, "1s", 1), Rate(1, "0.002s", 1), Rate(2, "0.003s", 0)>>

\* a rate whose emission interval is longer than a second
PolSlow == <<Rate(1, "2s", 0)>>

\* policies of one, two and three rates
HttpConfigs ==
    {Config(PolBurst, {IdA}), Config(PolWide, {IdA}), Config(PolThree, {IdA}),
     Config(PolSlow, {IdA})}

\* the integrations: ASGI middleware, route dependency, decorator
Entries == {"middleware", "dependency", "decorator"}

\* request methods and paths (a path is its sequence of characters)
Methods == {"GET", "HEAD"}
Paths == {<<"/", "a">>, <<"/", "h">>, <<"/", "s", "x">>}

\* LimiterMiddleware.__init__: exclude_methods (default) and exclude_paths
ExcludeMethods == {"OPTIONS", "HEAD"}
ExcludePaths == {<<"/", "h">>, <<"/", "s", "*">>}

StartsWith(path, prefix) ==
    Len(prefix) <= Len(path) /\ SubSeq(path, 1, Len(prefix)) = prefix

\* LimiterMiddleware._is_excluded
IsExcluded(method, path) ==
    \/ method \in ExcludeMethods
    \/ path \in ExcludePaths
    \/ \E e \in ExcludePaths :
          /\ e[Len(e)] = "*"
          /\ StartsWith(path, SubSeq(e, 1, Len(e) - 1))

\* (mutation: no minimum of 1)
ResetSecondsUnclamped(result) == result.reset_ms \div 1000

\* RateLimitResult.reset_seconds
ResetSeconds(result) == Max(1, result.reset_ms \div 1000)

\* RateLimitResult.retry_after_seconds
RetryAfterSeconds(result) == Max(1, result.retry_after_ms \div 1000)

\* the policy the headers are taken from is known: the one passed, or the default
PolicyKnown(w) == w.given \/ w.has_default

\* Limiter.add_headers
AddHeaders(h, result, pol, w) ==
    IF ~w.expose_headers \/ ~PolicyKnown(w) THEN h
    ELSE [h EXCEPT !.limit = pol[result.matched_rate_index + 1].permits,
                   !.remaining = Max(0, result.remaining),
                   !.reset = ResetSeconds(result),
                   !.retry_after = IF result.allowed THEN @ ELSE RetryAfterSeconds(result)]

\* LimiterMiddleware.__call__: the headers send_wrapper adds to the
\* application's response
SendWrapperHeaders(h, result, pol, w) ==
    IF ~w.expose_headers \/ ~PolicyKnown(w) THEN h
    ELSE [h EXCEPT !.limit = pol[result.matched_rate_index + 1].permits,
                   !.remaining = Max(0, result.remaining),
                   !.reset = ResetSeconds(result)]

\* rate_limit_dependency: the headers of the HTTPException of a rejection
RejectionHeaders(result, pol, w) ==
    [limit |-> IF w.given THEN pol[result.matched_rate_index + 1].permits ELSE 0,
     remaining |-> Max(0, result.remaining),
     reset |-> ResetSeconds(result),
     retry_after |-> RetryAfterSeconds(result)]

\* the 503 of the middleware and of the dependency: Retry-After: 5
UnavailableHeaders == [NoHeaders EXCEPT !.retry_after = 5]

\* Limiter.check_policy as the HTTP layer sees it: the results a store verdict
\* can give with the store after it, the fail-mode result after a store
\* error, or an exception
CheckResults(st, now, w) ==
    LET keys == KeysOf(cfg.policy, IdA)
    IN [verdict |->
          UNION {{[result |-> RateLimitResultOf(AdapterReply(ScriptReply(v, m))),
                   store |-> ScriptWrite(st, keys, v, MaxTtlMs(cfg.policy), now)] :
                     m \in MatchedSet(v)} :
                 v \in {Verdicts(st, keys, EmissionIntervals(cfg.policy),
                                 BurstCapacities(cfg.policy), now, u) :
                           u \in UndefRemaining}},
        error |-> {[result |-> FailModeResult(w.fail_mode, cfg.policy), store |-> st]}]

InitHttp ==
    /\ clock = 0
    /\ cfg \in HttpConfigs
    /\ store = [k \in AllKeys(cfg) |-> [present |-> FALSE, tat |-> 0, exp |-> 0]]
    /\ pc = [p \in Procs |-> "idle"]
    /\ req = [p \in Procs |-> NoReq]
    /\ res = [p \in Procs |-> NoRes]
    /\ log = <<>>
    /\ metrics = [requests_allowed |-> 0, requests_blocked |-> 0, redis_errors |-> 0]
    /\ lim = [fail_mode |-> "open", has_default |-> TRUE, connected |-> TRUE, lock |-> 0,
              closed |-> FALSE]
    /\ adapter = [connected |-> TRUE, loaded |-> TRUE, connects |-> 1]
    /\ up = TRUE
    /\ fpc = [p \in Procs |-> "idle"]
    /\ fcall = [p \in Procs |-> NoCall]
    /\ fout = [p \in Procs |-> NoOut]
    /\ hooks = [on_decision |-> 0, on_error |-> 0]
    /\ ncalls = [started |-> 0, done |-> 0]
    /\ apc = [p \in Procs |-> "idle"]
    /\ actr = [p \in Procs |-> NoTries]
    /\ aout = [p \in Procs |-> "none"]
    /\ web \in [expose_headers : BOOLEAN, fail_mode : {"open", "closed"},
                given : BOOLEAN, has_default : {TRUE}]
    /\ http = NoHttp
    /\ sel = <<>>

httpFrame ==
    UNCHANGED <<cfg, pc, req, res, log, metrics, lim, adapter, up,
                fpc, fcall, fout, hooks, apc, actr, aout, web, sel>>

\* the response is sent (or the exception leaves the integration, status 500)
Respond(h, status, body, headers) ==
    /\ http' = [h EXCEPT !.phase = "done", !.status = status, !.body = body,
                         !.headers = headers]
    /\ ncalls' = [ncalls EXCEPT !.done = @ + 1]

\* the `except Exception` of the middleware and of the dependency: failing
\* open the application runs (without headers), failing closed a 503 is sent
OnException(h) ==
    IF web.fail_mode = "open"
    THEN http' = [h EXCEPT !.phase = "app_plain"] /\ UNCHANGED ncalls
    ELSE Respond(h, 503, "unavailable", UnavailableHeaders)

\* what the downstream application does when it is invoked
AppOutcomes == {"responds", "raises"}

\* a request arrives at one of the integrations
HRequest(entry, method, path) ==
    /\ http.phase \in {"idle", "done"}
    /\ ncalls.started < MaxOps
    /\ ncalls' = [ncalls EXCEPT !.started = @ + 1]
    /\ http' = [NoHttp EXCEPT !.phase = "recv", !.entry = entry,
                              !.excluded = (entry = "middleware" /\ IsExcluded(method, path))]
    /\ UNCHANGED <<clock, store>>
    /\ httpFrame

\* the check of the request: check_policy returns a result or raises, and the
\* integration answers a rejection
HCheck(so) ==
    /\ http.phase = "recv"
    /\ ~http.excluded
    /\ LET h == [http EXCEPT !.checks = @ + 1, !.outcome = so] IN
       IF so = "raised"
       THEN /\ store' = store
            /\ IF h.entry = "decorator"
               THEN Respond(h, 500, "error", NoHeaders)
               ELSE OnException(h)
       ELSE \E o \in CheckResults(store, clock, web)[so] :
            LET r == o.result
                hr == [h EXCEPT !.result = r]
            IN /\ store' = o.store
               /\ IF ~r.allowed
                  THEN IF h.entry = "dependency"
                       THEN Respond(hr, 429, "rate_limited", RejectionHeaders(r, cfg.policy, web))
                       ELSE Respond(hr, 429, "rate_limited",
                                    AddHeaders(NoHeaders, r, cfg.policy, web))
                  ELSE /\ http' = [hr EXCEPT
                              !.phase = CASE h.entry = "middleware" -> "app_wrapped"
                                          [] h.entry = "dependency" -> "app_dep"
                                          [] h.entry = "decorator" -> "app_deco",
                              !.headers = IF h.entry = "dependency"
                                          THEN AddHeaders(NoHeaders, r, cfg.policy, web)
                                          ELSE NoHeaders]
                       /\ UNCHANGED ncalls
    /\ UNCHANGED clock
    /\ httpFrame

\* the downstream application (the route) runs: it responds, or raises
HApp(how) ==
    /\ http.phase \in {"recv", "app_wrapped", "app_plain", "app_dep", "app_deco"}
    /\ http.phase = "recv" => http.excluded
    /\ LET h == [http EXCEPT !.app_calls = @ + 1] IN
       CASE http.phase = "app_wrapped" ->
              IF how = "responds"
              THEN Respond(h, 200, "app",
                           SendWrapperHeaders(NoHeaders, h.result, cfg.policy, web))
              ELSE OnException(h)
         [] http.phase = "app_dep" ->
              IF how = "responds" THEN Respond(h, 200, "app", h.headers)
              ELSE Respond(h, 500, "error", NoHeaders)
         [] http.phase = "app_deco" ->
              IF how = "responds"
              THEN Respond(h, 200, "app", AddHeaders(NoHeaders, h.result, cfg.policy, web))
              ELSE Respond(h, 500, "error", NoHeaders)
         [] OTHER ->
              IF how = "responds" THEN Respond(h, 200, "app", NoHeaders)
              ELSE Respond(h, 500, "error", NoHeaders)
    /\ UNCHANGED <<clock, store>>
    /\ httpFrame

\* time passes
HTick ==
    /\ clock < MaxTime
    /\ clock' = clock + 1
    /\ store' = Expire(store, clock + 1)
    /\ UNCHANGED <<http, ncalls>>
    /\ httpFrame

NextHttp ==
    \/ \E entry \in Entries, method \in Methods, path \in Paths : HRequest(entry, method, path)
    \/ \E so \in {"verdict", "error", "raised"} : HCheck(so)
    \/ \E how \in AppOutcomes : HApp(how)
    \/ HTick

SpecHttp == InitHttp /\ [][NextHttp]_vars

----------------------------------------------------------------------------
(* selectors.py: the ip selector.  A text is the sequence of its characters. *)

Contains(s, ch) == \E i \in 1..Len(s) : s[i] = ch
IndexOf(s, ch) == CHOOSE i \in 1..Len(s) : s[i] = ch /\ \A j \in 1..(i - 1) : s[j] # ch
LastIndexOf(s, ch) ==
    CHOOSE i \in 1..Len(s) : s[i] = ch /\ \A j \in (i + 1)..Len(s) : s[j] # ch

\* s.rsplit(ch, 1)[0]
RSplitHead(s, ch) == SubSeq(s, 1, LastIndexOf(s, ch) - 1)

\* s.split(ch)
RECURSIVE Split(_, _)
Split(s, ch) ==
    IF ~Contains(s, ch) THEN <<s>>
    ELSE <<SubSeq(s, 1, IndexOf(s, ch) - 1)>>
            \o Split(SubSeq(s, IndexOf(s, ch) + 1, Len(s)), ch)

\* s.strip()
RECURSIVE Strip(_)
Strip(s) ==
    IF s # <<>> /\ s[1] = " " THEN Strip(Tail(s))
    ELSE IF s # <<>> /\ s[Len(s)] = " " THEN Strip(SubSeq(s, 1, Len(s) - 1))
    ELSE s

DecDigits == {"1", "2"}
HexDigits == {"1", "2", "a", "A"}

\* ipaddress.IPv4Address: four decimal octets (the digits here give no
\* leading zero and no octet above 255)
IsV4(s) ==
    LET parts == Split(s, ".") IN
    /\ Len(parts) = 4
    /\ \A i \in 1..4 :
          /\ Len(parts[i]) \in 1..3
          /\ \A j \in 1..Len(parts[i]) : parts[i][j] \in DecDigits

\* ipaddress.IPv6Address without scope: groups of 1..4 hex digits, eight of
\* them or fewer around a single "::"
IsV6Plain(s) ==
    LET parts == Split(s, ":")
        n == Len(parts)
        skips == {i \in 2..(n - 1) : parts[i] = <<>>}
    IN /\ n \in 3..9
       /\ \A i \in 1..n : /\ Len(parts[i]) <= 4
                          /\ \A j \in 1..Len(parts[i]) : parts[i][j] \in HexDigits
       /\ IF skips = {}
          THEN n = 8 /\ \A i \in 1..n : parts[i] # <<>>
          ELSE /\ Cardinality(skips) = 1
               /\ parts[1] = <<>> => parts[2] = <<>>
               /\ parts[n] = <<>> => parts[n - 1] = <<>>
               /\ Cardinality({i \in 1..n : parts[i] # <<>>}) <= 7

\* ipaddress.IPv6Address: an optional "%scope" after the address
IsV6(s) ==
    IF Contains(s, "%")
    THEN LET at == IndexOf(s, "%")
             scope == SubSeq(s, at + 1, Len(s))
         IN /\ scope # <<>> /\ ~Contains(scope, "%")
            /\ IsV6Plain(SubSeq(s, 1, at - 1))
    ELSE IsV6Plain(s)

\* str(ipaddress.ip_address(s)) of a valid text: hex digits in lower case,
\* the scope kept (the texts here are too short for a "::" that stands for a
\* single group, the one case that is written out)
Canonical(s) == [i \in 1..Len(s) |-> IF s[i] = "A" THEN "a" ELSE s[i]]

\* _normalize_ip
NormalizeIp(s) ==
    LET t == IF Contains(s, ":") /\ (s = <<>> \/ s[1] # "[")
             THEN RSplitHead(s, ":")
             ELSE IF s # <<>> /\ s[1] = "[" /\ Contains(s, "]")
             THEN SubSeq(s, 2, IndexOf(s, "]") - 1)
             ELSE s
    IN IF IsV4(t) \/ IsV6(t) THEN Canonical(t) ELSE t

Unknown == <<"u", "n", "k", "n", "o", "w", "n">>

\* key_ip: CF-Connecting-IP, X-Real-IP, first hop of X-Forwarded-For, peer
\* address; an empty text stands for a header that is absent
KeyIp(r) ==
    IF r.cf # <<>> THEN NormalizeIp(r.cf)
    ELSE IF r.real # <<>> THEN NormalizeIp(r.real)
    ELSE IF r.xff # <<>> /\ Strip(Split(r.xff, ",")[1]) # <<>>
    THEN NormalizeIp(Strip(Split(r.xff, ",")[1]))
    ELSE IF r.peer # <<>> THEN NormalizeIp(r.peer)
    ELSE Unknown

\* sample addresses: their text and the canonical form of the address
V4a == <<"1", ".", "2", ".", "1", ".", "2">>
V4b == <<"2", ".", "2", ".", "1", ".", "2">>
V6a == <<"1", ":", ":", "2", ":", "1">>
V6b == <<"1", ":", ":", "2", ":", "2">>
V6c == <<"1", ":", ":", "A">>
V6cCanonical == <<"1", ":", ":", "a">>

\* the texts a client address arrives as: plain, with a port, in brackets,
\* with a zone; and texts that are no address.  addr is the address meant.
Client(text, addr) == [text |-> text, valid |-> TRUE, addr |-> addr]
Garbage(text) == [text |-> text, valid |-> FALSE, addr |-> text]

Port == <<":", "2">>
Zone == <<"%", "z">>

FormsV4(a) == {Client(a, a), Client(a \o Port, a)}
FormsV6(a, canon) ==
    {Client(a, canon), Client(<<"[">> \o a \o <<"]">>, canon),
     Client(<<"[">> \o a \o <<"]">> \o Port, canon),
     Client(a \o Zone, canon), Client(<<"[">> \o a \o Zone \o <<"]">> \o Port, canon)}

Clients ==
    FormsV4(V4a) \cup FormsV4(V4b)
        \cup FormsV6(V6a, V6a) \cup FormsV6(V6b, V6b) \cup FormsV6(V6c, V6cCanonical)
        \cup {Garbage(<<"z", "z">>), Garbage(<<"1", ".", "2">>), Garbage(<<"1", ":", "2">>)}

\* the headers of a request whose client address is carried by src; with
\* decoy, every source of lower rank carries the address of a proxy
Sources == <<"cf", "real", "xff", "peer">>
Proxy == <<"2", ".", "1", ".", "1", ".", "1">>

RequestOf(src, text, decoy) ==
    LET at(k) == IF Sources[k] = src THEN text
                 ELSE IF decoy /\ (\E j \in 1..(k - 1) : Sources[j] = src) THEN Proxy
                 ELSE <<>>
    IN [cf |-> at(1), real |-> at(2),
        xff |-> IF src = "xff" THEN text \o <<",", " ">> \o Proxy ELSE at(3),
        peer |-> at(4)]

\* number of requests looked at together
MaxRequests == 2

InitSel ==
    /\ clock = 0
    /\ cfg \in FacadeConfigs
    /\ store = [k \in AllKeys(cfg) |-> [present |-> FALSE, tat |-> 0, exp |-> 0]]
    /\ pc = [p \in Procs |-> "idle"]
    /\ req = [p \in Procs |-> NoReq]
    /\ res = [p \in Procs |-> NoRes]
    /\ log = <<>>
    /\ metrics = [requests_allowed |-> 0, requests_blocked |-> 0, redis_errors |-> 0]
    /\ lim = [fail_mode |-> "open", has_default |-> TRUE, connected |-> TRUE, lock |-> 0,
              closed |-> FALSE]
    /\ adapter = [connected |-> TRUE, loaded |-> TRUE, connects |-> 1]
    /\ up = TRUE
    /\ fpc = [p \in Procs |-> "idle"]
    /\ fcall = [p \in Procs |-> NoCall]
    /\ fout = [p \in Procs |-> NoOut]
    /\ hooks = [on_decision |-> 0, on_error |-> 0]
    /\ ncalls = [started |-> 0, done |-> 0]
    /\ apc = [p \in Procs |-> "idle"]
    /\ actr = [p \in Procs |-> NoTries]
    /\ aout = [p \in Procs |-> "none"]
    /\ web = NoWeb
    /\ http = NoHttp
    /\ sel = <<>>

\* key_ip is applied to a request
SelCall(src, c, decoy) ==
    /\ Len(sel) < MaxRequests
    /\ sel' = Append(sel, [client |-> c, principal |-> KeyIp(RequestOf(src, c.text, decoy))])
    /\ UNCHANGED <<clock, cfg, store, pc, req, res, log, metrics, lim, adapter, up,
                   fpc, fcall, fout, hooks, ncalls, apc, actr, aout, web, http>>

NextSel ==
    \E k \in 1..Len(Sources), c \in Clients, decoy \in BOOLEAN : SelCall(Sources[k], c, decoy)

SpecSel == InitSel /\ [][NextSel]_vars

----------------------------------------------------------------------------
(* What the claims say, in the terms of the design: T = P / permits (integer  *)
(* division), B = burst * T, ttl = max(P + B, 2P), policy ttl = max ttl.      *)

ClaimT(rate) == ParseDuration(rate.per) \div rate.permits
ClaimB(rate) == rate.burst * ClaimT(rate)
ClaimTtl(rate) ==
    Max(ParseDuration(rate.per) + ClaimB(rate), 2 * ParseDuration(rate.per))
ClaimPolicyTtl(p) ==
    CHOOSE t \in {ClaimTtl(p[i]) : i \in 1..Len(p)} :
        \A i \in 1..Len(p) : ClaimTtl(p[i]) <= t

\* the key of rate i (1-based) of the policy in use, for an identity
KeyOf(id, i) == KeysOf(cfg.policy, id)[i]

\* the TAT a check at time now reads for one key
TatRead(st, k, now) == IF st[k].present THEN st[k].tat ELSE now

\* rate i, evaluated alone against its own key at time now, admits
AdmitsAlone(st, id, i, now) ==
    now >= TatRead(st, KeyOf(id, i), now) - ClaimB(cfg.policy[i])

\* the step in which the store executes the script invocation of p
ScriptStep(p) == pc[p] = "sent" /\ pc'[p] = "replied"

RateIdx == 1..Len(cfg.policy)

\* C3: a request is admitted if and only if every rate of the policy, taken
\* alone against its own key at that instant, admits it; on rejection the
\* matched index names a rate that itself rejects.
C3_AllMustPass ==
    [][\A p \in Procs : ScriptStep(p) =>
        /\ res'[p].allowed <=>
            \A i \in RateIdx : AdmitsAlone(store, req[p].id, i, req[p].now)
        /\ ~res'[p].allowed =>
            /\ res'[p].idx \in RateIdx
            /\ ~AdmitsAlone(store, req[p].id, res'[p].idx, req[p].now)]_vars

\* a two-rate request rejected by its first rate alone
C3_Witness ==
    \E p \in Procs :
        /\ pc[p] = "replied" /\ ~res[p].allowed /\ Len(cfg.policy) = 2
        /\ res[p].idx = 1
        /\ ~AdmitsAlone(store, req[p].id, 1, req[p].now)
        /\ AdmitsAlone(store, req[p].id, 2, req[p].now)

\* C4: a rejected request writes nothing, and the keys of one request either
\* all change or all stay.
C4_RejectWritesNothing ==
    [][\A p \in Procs : ScriptStep(p) =>
        /\ ~res'[p].allowed => store' = store
        /\ \/ \A i \in RateIdx : store'[KeyOf(req[p].id, i)] = store[KeyOf(req[p].id, i)]
           \/ \A i \in RateIdx : store'[KeyOf(req[p].id, i)] # store[KeyOf(req[p].id, i)]]_vars

\* a two-rate request rejected although its second rate admits: nothing moved
C4_Witness ==
    \E p \in Procs :
        /\ pc[p] = "replied" /\ ~res[p].allowed /\ Len(cfg.policy) = 2
        /\ AdmitsAlone(store, req[p].id, 2, req[p].now)
        /\ store[KeyOf(req[p].id, 2)].present

\* C5: an admission sets every rate's TAT to max(old TAT, now) + T_i (an absent
\* key reads as now) and gives each key the policy TTL; the arithmetic of the
\* tests: T = 100, B = 200, first request at 1000, burst at 1001 and 1002,
\* rejection at 1003, a request after a long idle at 5000.
C5_Arithmetic ==
    /\ RateVerdict(1000, 100, 200, 1000, 0).admit
    /\ RateVerdict(1000, 100, 200, 1000, 0).new_tat = 1100
    /\ RateVerdict(1100, 100, 200, 1001, 0).new_tat = 1200
    /\ RateVerdict(1200, 100, 200, 1002, 0).new_tat = 1300
    /\ ~RateVerdict(1300, 100, 200, 1003, 0).admit
    /\ RateVerdict(1300, 100, 200, 1003, 0).retry = 97
    /\ RateVerdict(1100, 100, 200, 5000, 0).new_tat = 5100

C5_AdmissionWrites ==
    /\ C5_Arithmetic
    /\ [][\A p \in Procs : (ScriptStep(p) /\ res'[p].allowed) =>
            \A i \in RateIdx :
                LET k == KeyOf(req[p].id, i) IN
                /\ store'[k].present
                /\ store'[k].tat =
                     Max(TatRead(store, k, req[p].now), req[p].now) + ClaimT(cfg.policy[i])
                /\ store'[k].exp = clock + ClaimPolicyTtl(cfg.policy)]_vars

\* an admitted two-rate request on keys that already held a TAT ahead of now
C5_Witness ==
    \E p \in Procs :
        /\ pc[p] = "replied" /\ res[p].allowed /\ Len(cfg.policy) = 2
        /\ store[KeyOf(req[p].id, 1)].tat > req[p].now + ClaimT(cfg.policy[1])
        /\ store[KeyOf(req[p].id, 2)].tat > req[p].now + ClaimT(cfg.policy[2])

\* C6 as stated: the TAT a key holds never decreases while it is present, and
\* no admission writes a TAT smaller than one written before on that key (an
\* absent key keeps the last TAT it held).
C6_NeverSmallerThanEarlier ==
    [][\A k \in DOMAIN store : store'[k].present => store'[k].tat >= store[k].tat]_vars

\* C6 as amended: the TAT of a key never decreases while the key is present, so
\* the admissions made since the key last appeared write non-decreasing TATs.
C6_MonotoneWhilePresent ==
    [][\A k \in DOMAIN store :
        (store[k].present /\ store'[k].present) => store'[k].tat >= store[k].tat]_vars

\* a key that took a second admission while present
C6_Witness ==
    \E id \in cfg.idents :
        /\ ClaimT(cfg.policy[1]) > 0
        /\ store[KeyOf(id, 1)].present
        /\ store[KeyOf(id, 1)].tat >= clock + 2 * ClaimT(cfg.policy[1])

\* the verdict a check of id at time t gets on store st (the script runs no
\* earlier than the present instant)
WouldAdmit(st, id, t) ==
    \A u \in UndefRemaining :
        Rejecting(Verdicts(Expire(st, Max(t, clock)), KeysOf(cfg.policy, id),
                           EmissionIntervals(cfg.policy), BurstCapacities(cfg.policy),
                           t, u)) = {}

\* the retry of rate i alone: allow_at - now
RetryAlone(st, id, i, now) ==
    TatRead(st, KeyOf(id, i), now) - ClaimB(cfg.policy[i]) - now

\* C9: a rejection's retry_after_ms r is at least 1, is the largest retry of
\* the rejecting rates, and with no admission in between a check at any t in
\* [now, now + r) is rejected and a check at now + r is admitted.
C9_RetryIsEarliest ==
    [][\A p \in Procs : (ScriptStep(p) /\ ~res'[p].allowed) =>
        LET r == res'[p].retry
            now == req[p].now
            id == req[p].id
        IN /\ r >= 1
           /\ \E i \in RateIdx : ~AdmitsAlone(store, id, i, now) /\ r = RetryAlone(store, id, i, now)
           /\ \A i \in RateIdx : ~AdmitsAlone(store, id, i, now) => RetryAlone(store, id, i, now) <= r
           /\ \A t \in now..(now + r - 1) : ~WouldAdmit(store', id, t)
           /\ WouldAdmit(store', id, now + r)]_vars

\* a rejection by both rates of a policy, with different retries
C9_Witness ==
    \E p \in Procs :
        /\ pc[p] = "replied" /\ ~res[p].allowed /\ Len(cfg.policy) = 2
        /\ ~AdmitsAlone(store, req[p].id, 1, req[p].now)
        /\ ~AdmitsAlone(store, req[p].id, 2, req[p].now)
        /\ RetryAlone(store, req[p].id, 1, req[p].now) # RetryAlone(store, req[p].id, 2, req[p].now)
        /\ res[p].retry >= 2

\* the arrival times of n back-to-back requests starting at t, all within less
\* than one emission interval T
BurstTimes(t, T, n) ==
    {a \in [1..n -> t..(t + T - 1)] : \A j \in 1..(n - 1) : a[j] <= a[j + 1]}

\* the verdicts of the checks of id at times a[j..], run one after the other
RECURSIVE RunChecks(_, _, _, _)
RunChecks(st, id, a, j) ==
    IF j > Len(a) THEN <<>>
    ELSE LET seen == Expire(st, Max(a[j], clock))
             v == Verdicts(seen, KeysOf(cfg.policy, id), EmissionIntervals(cfg.policy),
                           BurstCapacities(cfg.policy), a[j], 0)
             next == ScriptWrite(seen, KeysOf(cfg.policy, id), v,
                                 MaxTtlMs(cfg.policy), Max(a[j], clock))
         IN <<Rejecting(v) = {}>> \o RunChecks(next, id, a, j + 1)

\* C10: whenever the TAT of a key is absent or not after now, the next
\* 1 + burst back-to-back requests are admitted and the one after is rejected.
C10_BurstThenBlock ==
    \A id \in cfg.idents :
        LET rate == cfg.policy[1]
            k == KeyOf(id, 1)
        IN (Len(cfg.policy) = 1 /\ (~store[k].present \/ store[k].tat <= clock)) =>
            \A a \in BurstTimes(clock, ClaimT(rate), rate.burst + 2) :
                RunChecks(store, id, a, 1) =
                    [j \in 1..(rate.burst + 2) |-> j <= rate.burst + 1]

\* a full burst was admitted and a request rejected, and the idle time since
\* has let now reach the stored TAT
C10_Witness ==
    \E id \in cfg.idents :
        /\ Len(cfg.policy) = 1 /\ cfg.policy[1].burst >= 1
        /\ ClaimT(cfg.policy[1]) >= 2
        /\ metrics.requests_allowed >= 1 + cfg.policy[1].burst
        /\ metrics.requests_blocked >= 1
        /\ store[KeyOf(id, 1)].present
        /\ store[KeyOf(id, 1)].tat <= clock

\* the verdicts (allowed, retry_after_ms, remaining) a check of id at time t
\* can get on store st
Outcomes(st, id, t) ==
    LET seen == Expire(st, Max(t, clock))
    IN {[allowed |-> r.allowed, retry |-> r.retry, remaining |-> r.remaining] :
          r \in UNION {{ScriptReply(v, m) : m \in MatchedSet(v)} :
                  v \in {Verdicts(seen, KeysOf(cfg.policy, id), EmissionIntervals(cfg.policy),
                                  BurstCapacities(cfg.policy), t, u) : u \in UndefRemaining}}}

\* C7: a check for one (scope, principal) pair, admitted or rejected, leaves the
\* verdict of every check for a different pair what it was without it.
C7_Isolation ==
    [][\A p \in Procs : ScriptStep(p) =>
        \A id \in cfg.idents \ {req[p].id} : \A t \in clock..MaxTime :
            Outcomes(store', id, t) = Outcomes(store, id, t)]_vars

\* the admitted invocations of the record, by position
Admitted == {j \in 1..Len(log) : log[j].allowed}

\* the record was made by checks with non-decreasing now_ms
NowsNonDecreasing == \A j \in 1..(Len(log) - 1) : log[j].now <= log[j + 1].now

\* the smallest burst of the rates of a policy
TightestBurst(p) ==
    CHOOSE b \in {p[i].burst : i \in 1..Len(p)} : \A i \in 1..Len(p) : b <= p[i].burst

\* C1: M checks issued at the same instant on an empty store admit exactly
\* min(M, 1 + b) requests, whatever the order of their script invocations.
C1_ExactlyOnePlusBurst ==
    clock = 0 => Cardinality(Admitted) = Min(Len(log), 1 + TightestBurst(cfg.policy))

\* every recorded check was executed at the instant it was issued
ExecutedWhenIssued == \A j \in 1..Len(log) : log[j].at = log[j].now

\* C2: with non-decreasing now_ms on one single-rate key, from any admitted
\* timestamp t_i at most permits + burst admitted timestamps lie in
\* [t_i, t_i + period). (Stated for the runs in which no check is delayed
\* between reading the clock and the store.)
C2_SingleRateCap ==
    (Len(cfg.policy) = 1 /\ NowsNonDecreasing /\ ExecutedWhenIssued) =>
        \A i \in Admitted :
            Cardinality({j \in Admitted :
                            j >= i /\ log[j].now < log[i].now + PeriodMs(cfg.policy[1])})
                <= cfg.policy[1].permits + cfg.policy[1].burst

\* one invocation run alone on store st: whether every rate admits, and the
\* largest retry of the rejecting ones
SeqAdmit(st, e) == \A i \in RateIdx : AdmitsAlone(st, e.id, i, e.now)

SeqRetry(st, e) ==
    IF SeqAdmit(st, e) THEN 0
    ELSE CHOOSE r \in {RetryAlone(st, e.id, i, e.now) :
                         i \in {n \in RateIdx : ~AdmitsAlone(st, e.id, n, e.now)}} :
             \A i \in RateIdx :
                 ~AdmitsAlone(st, e.id, i, e.now) => RetryAlone(st, e.id, i, e.now) <= r

SeqWrite(st, e) ==
    IF ~SeqAdmit(st, e) THEN st
    ELSE [k \in DOMAIN st |->
            IF \E i \in RateIdx : KeyOf(e.id, i) = k
            THEN LET i == CHOOSE n \in RateIdx : KeyOf(e.id, n) = k
                 IN [present |-> TRUE,
                     tat |-> Max(TatRead(st, k, e.now), e.now) + ClaimT(cfg.policy[i]),
                     exp |-> e.at + ClaimPolicyTtl(cfg.policy)]
            ELSE st[k]]

\* the sequential execution of the recorded invocations from position j on,
\* one at a time from store st: the final store, or nothing when a verdict of
\* the execution is not the recorded one
RECURSIVE Replay(_, _)
Replay(st, j) ==
    IF j > Len(log) THEN <<Expire(st, clock)>>
    ELSE CHOOSE out \in
            {IF /\ log[j].allowed = SeqAdmit(seen, log[j])
                /\ log[j].retry = SeqRetry(seen, log[j])
             THEN Replay(SeqWrite(seen, log[j]), j + 1)
             ELSE <<>> : seen \in {Expire(st, log[j].at)}} : TRUE

EmptyStore == [k \in DOMAIN store |-> [present |-> FALSE, tat |-> 0, exp |-> 0]]

\* C8: the verdicts returned and the final TATs are those of the sequential
\* execution of the invocations in the order the store executed them.
C8_Linearizable == Replay(EmptyStore, 1) = <<store>>

\* two checks in flight together, executed against their order of arrival, the
\* first admitted and the second rejected on the TAT the first wrote
C8_Witness ==
    /\ Len(log) >= 2
    /\ log[1].now > log[2].now
    /\ log[1].allowed /\ ~log[2].allowed
    /\ C8_Linearizable

\* the key set of the last admitted invocation is still in the store while
\* less than the policy TTL has passed since
KeptForTtl ==
    Admitted # {} =>
        LET j == CHOOSE a \in Admitted : \A b \in Admitted : b <= a
        IN clock < log[j].at + ClaimPolicyTtl(cfg.policy) =>
              \A i \in RateIdx : store[KeyOf(log[j].id, i)].present

\* C11: every admission sets the expiry of each key of the request to the
\* policy TTL, a key stays for at least that TTL after the last admission, and
\* a request that finds its keys expired is admitted as on an empty store.
C11_TtlRecovery ==
    /\ []KeptForTtl
    /\ [][\A p \in Procs : ScriptStep(p) =>
            LET id == req[p].id
                now == req[p].now
            IN /\ res'[p].allowed =>
                    \A i \in RateIdx :
                        /\ store'[KeyOf(id, i)].present
                        /\ store'[KeyOf(id, i)].exp = clock + ClaimPolicyTtl(cfg.policy)
               /\ (\A i \in RateIdx : ~store[KeyOf(id, i)].present) =>
                    /\ res'[p].allowed
                    /\ \A i \in RateIdx :
                          store'[KeyOf(id, i)].tat = now + ClaimT(cfg.policy[i])]_vars

\* a key admitted on, expired after the policy TTL, and created again by the
\* next request
C11_Witness ==
    /\ Len(log) = 2
    /\ log[1].allowed /\ log[2].allowed
    /\ log[2].at >= log[1].at + ClaimPolicyTtl(cfg.policy)
    /\ store[KeyOf(log[2].id, 1)].present
    /\ store[KeyOf(log[2].id, 1)].tat = log[2].now + ClaimT(cfg.policy[1])

\* the per-rate values of the design for a check of id at time now on store st
ResetAlone(st, id, i, now) ==
    IF AdmitsAlone(st, id, i, now)
    THEN Max(TatRead(st, KeyOf(id, i), now), now) + ClaimT(cfg.policy[i]) - now
    ELSE TatRead(st, KeyOf(id, i), now) - now

RemainingAlone(st, id, i, now) ==
    Max(0, (ClaimB(cfg.policy[i]) - ResetAlone(st, id, i, now)) \div ClaimT(cfg.policy[i]))

\* C12: the result names, by 0-based position, the rejecting rate with the
\* largest retry and carries its retry and reset with remaining 0; on admission
\* it names the rate with the smallest remaining and carries its reset and
\* remaining with retry 0.
C12_MatchedRate ==
    [][\A p \in Procs : ScriptStep(p) =>
        LET id == req[p].id
            now == req[p].now
            out == RateLimitResultOf(AdapterReply(res'[p]))
            m == out.matched_rate_index + 1
            nope == {i \in RateIdx : ~AdmitsAlone(store, id, i, now)}
        IN /\ m \in RateIdx
           /\ out.allowed = (nope = {})
           /\ ~out.allowed =>
                /\ m \in nope
                /\ \A i \in nope : RetryAlone(store, id, i, now) <= RetryAlone(store, id, m, now)
                /\ out.retry_after_ms = RetryAlone(store, id, m, now)
                /\ out.reset_ms = ResetAlone(store, id, m, now)
                /\ out.remaining = 0
           /\ out.allowed =>
                /\ out.retry_after_ms = 0
                /\ out.reset_ms = ResetAlone(store, id, m, now)
                /\ (\A i \in RateIdx : ClaimT(cfg.policy[i]) > 0) =>
                     /\ out.remaining = RemainingAlone(store, id, m, now)
                     /\ \A i \in RateIdx :
                          RemainingAlone(store, id, m, now) <= RemainingAlone(store, id, i, now)]_vars

\* a two-rate policy rejected by both rates, the second one reported; and
\* another admitted on the same policy
C12_Witness ==
    \E p \in Procs :
        /\ pc[p] = "replied" /\ Len(cfg.policy) = 2
        /\ ~res[p].allowed
        /\ RateLimitResultOf(AdapterReply(res[p])).matched_rate_index = 1
        /\ \A i \in RateIdx : ~AdmitsAlone(store, req[p].id, i, req[p].now)
        /\ metrics.requests_allowed >= 1

----------------------------------------------------------------------------
(* Claims on the facade *)

\* the step in which a check_policy call, or a startup() call, of p ends
CheckEnds(p) == fcall[p].kind = "check" /\ fpc[p] # "idle" /\ fpc'[p] = "idle"
StartupEnds(p) == fcall[p].kind = "startup" /\ fpc[p] # "idle" /\ fpc'[p] = "idle"

\* the call of p has a policy to use: its own or the default one
HasPolicy(p) == fcall[p].given \/ lim.has_default

LargestPermits(pol) ==
    CHOOSE n \in {pol[i].permits : i \in 1..Len(pol)} :
        \A i \in 1..Len(pol) : pol[i].permits <= n

\* C13: failing open, a check whose store call fails returns allowed with
\* retry 0 and remaining = the largest permits of the policy, raises nothing,
\* and invokes on_error exactly once.
C13_FailOpen ==
    [][\A p \in Procs :
        (CheckEnds(p) /\ HasPolicy(p) /\ lim.fail_mode = "open" /\ fout'[p].store = "error") =>
            /\ fout'[p].kind = "result"
            /\ fout'[p].result.allowed
            /\ fout'[p].result.retry_after_ms = 0
            /\ fout'[p].result.remaining = LargestPermits(cfg.policy)
            /\ hooks'.on_error = hooks.on_error + 1]_vars

\* three checks in a row on a store never reached, all failed open
C13_Witness ==
    /\ lim.fail_mode = "open" /\ ~lim.connected /\ ~adapter.connected
    /\ ncalls.done = 3 /\ hooks.on_error = 3 /\ metrics.redis_errors = 3
    /\ \E p \in Procs : fout[p].kind = "result" /\ fout[p].store = "error"
                        /\ fout[p].result.remaining = 2

\* C14: failing closed, every check during which a store error occurs, in its
\* implicit startup or in the store call, invokes on_error and returns
\* allowed = false with retry = reset = 1000 instead of raising.
C14_FailClosed ==
    [][\A p \in Procs :
        (CheckEnds(p) /\ HasPolicy(p) /\ lim.fail_mode = "closed" /\ fout'[p].store = "error") =>
            /\ fout'[p].kind = "result"
            /\ ~fout'[p].result.allowed
            /\ fout'[p].result.retry_after_ms = 1000
            /\ fout'[p].result.reset_ms = 1000
            /\ hooks'.on_error = hooks.on_error + 1]_vars

\* the step in which the storage.connect() started by p ends
ConnectEnds(p) == fpc[p] = "connect" /\ fpc'[p] # "connect"

\* C15: a failed startup leaves the limiter not connected, is raised when
\* failing closed and swallowed when failing open; failing open, a check that
\* ends while the limiter is not connected is admitted; a successful startup
\* makes the limiter Ready, and a startup() on a Ready limiter does not connect.
C15_Lifecycle ==
    [][\A p \in Procs :
        /\ (ConnectEnds(p) /\ ~up) =>
              /\ ~lim'.connected /\ lim'.lock = 0
              /\ lim.fail_mode = "closed" =>
                    fpc'[p] = "idle" /\ fout'[p].kind = "raised" /\ fout'[p].exc = "store"
              /\ lim.fail_mode = "open" =>
                    /\ fout'[p].kind # "raised"
                    /\ fcall[p].kind = "check" => fpc'[p] = "policy"
                    /\ fcall[p].kind = "startup" => fpc'[p] = "idle"
        /\ (ConnectEnds(p) /\ up) => lim'.connected /\ lim'.lock = 0
        /\ lim.connected => lim'.connected /\ adapter'.connects = adapter.connects
        /\ (CheckEnds(p) /\ HasPolicy(p) /\ lim.fail_mode = "open" /\ ~lim'.connected
                /\ fout'[p].store # "cancelled") =>
              fout'[p].kind = "result" /\ fout'[p].result.allowed]_vars

\* failing open: a check admitted while the store was down, the limiter Ready
\* after a later startup, a startup() returned, and a verdict from the store
C15_Witness ==
    /\ lim.fail_mode = "open" /\ lim.connected
    /\ hooks.on_error >= 1 /\ hooks.on_decision >= 1
    /\ \E p \in Procs : fout[p].kind = "returned"
    /\ adapter.connects >= 2

StoreVerdicts(st) ==
    UNION {{RateLimitResultOf(AdapterReply(ScriptReply(v, m))) : m \in MatchedSet(v)} :
              v \in {Verdicts(st, KeysOf(cfg.policy, IdA), EmissionIntervals(cfg.policy),
                              BurstCapacities(cfg.policy), clock, u) : u \in UndefRemaining}}

\* C17: when a hook raises, check returns the result it returns otherwise:
\* the verdict of the store with no on_error call and no redis_errors
\* increment, or the fail-mode result after a store error; nothing is raised.
C17_HooksHarmless ==
    [][\A p \in Procs : (CheckEnds(p) /\ fout'[p].hook = "raised") =>
        /\ fout'[p].kind = "result"
        /\ fout'[p].store = "verdict" =>
              /\ fout'[p].result \in StoreVerdicts(store)
              /\ fout'[p].result.allowed = SeqAdmit(store, [id |-> IdA, now |-> clock])
              /\ hooks'.on_error = hooks.on_error
              /\ hooks'.on_decision = hooks.on_decision + 1
              /\ metrics'.redis_errors = metrics.redis_errors
        /\ fout'[p].store = "error" =>
              /\ fout'[p].result.allowed = (lim.fail_mode = "open")
              /\ fout'[p].result.retry_after_ms = IF lim.fail_mode = "open" THEN 0 ELSE 1000
              /\ hooks'.on_error = hooks.on_error + 1]_vars

\* a rejection by the store returned although on_decision raised, after an
\* admission
C17_Witness ==
    \E p \in Procs :
        /\ fout[p].kind = "result" /\ fout[p].hook = "raised" /\ fout[p].store = "verdict"
        /\ ~fout[p].result.allowed
        /\ metrics.requests_allowed = 1 /\ metrics.redis_errors = 0

\* C18: a check cancelled during the store round trip is handled as a store
\* error: on_error is invoked and the fail-mode result returned.
C18_CancelIsStoreError ==
    [][\A p \in Procs : (CheckEnds(p) /\ fout'[p].store = "cancelled") =>
        /\ fout'[p].kind = "result"
        /\ fout'[p].result.allowed = (lim.fail_mode = "open")
        /\ lim.fail_mode = "closed" => fout'[p].result.retry_after_ms = 1000
        /\ hooks'.on_error = hooks.on_error + 1]_vars

\* C20: no check on a constructed limiter raises a configuration error.
C20_NoConfigErrorAtRequest ==
    \A p \in Procs : ~(fout[p].kind = "raised" /\ fout[p].exc = "config")

\* C19: within one check_rate_limit call the script is reloaded at most once,
\* and the call makes a bounded number of store calls: an invocation, a
\* reload and a second invocation per attempt.
C19_ReloadOnce ==
    \A p \in Procs :
        /\ actr[p].reloads <= 1
        /\ actr[p].calls <= 3 * (MaxRetries + 1)

\* C24: check_rate_limit returns a verdict only when an EVALSHA of that call
\* came back with a reply; on an adapter that is not connected or has no
\* script loaded, and when no invocation was answered, the call raises.
C24_NeverSilentlySucceeds ==
    \A p \in Procs :
        (apc[p] = "idle" /\ aout[p] # "none") =>
            /\ aout[p] = "verdict" <=> actr[p].replies = 1
            /\ (~adapter.connected \/ ~adapter.loaded) => aout[p] = "error"
            /\ actr[p].replies = 0 => aout[p] = "error"

\* a call in which every attempt failed with a transport error has ended
C24_Witness ==
    \E p \in Procs :
        /\ apc[p] = "idle" /\ aout[p] = "error"
        /\ adapter.connected /\ adapter.loaded
        /\ actr[p].attempt = MaxRetries /\ actr[p].calls = MaxRetries + 1
        /\ actr[p].reloads = 0

\* C30: one check_rate_limit call charges its key at most once, retries
\* included, and a call that raised has charged nothing.
C30_OneChargePerCheck ==
    \A p \in Procs :
        /\ actr[p].charges <= 1
        /\ (apc[p] = "idle" /\ aout[p] = "error") => actr[p].charges = 0

\* a call of is_healthy returns in this step
HealthEnds(p) == fpc[p] = "health" /\ fpc'[p] = "idle"

\* C25: is_healthy returns true iff the limiter is started (startup succeeded,
\* no shutdown since) and the store answers the ping; it returns a boolean.
C25_Healthy ==
    [][\A p \in Procs :
          HealthEnds(p) =>
              /\ fout'[p].kind \in {"healthy", "unhealthy"}
              /\ fout'[p].kind = "healthy" <=> (lim.connected /\ up)]_vars

\* the check of p returns a result from its store call in this step
StoreEnds(p) == fpc[p] = "store" /\ fpc'[p] = "idle" /\ fout'[p].kind = "result"

MetricsSum(m) == m.requests_allowed + m.requests_blocked + m.redis_errors

\* C26: every check that reached the store call and returned increments
\* exactly one counter by one, the one of its outcome (allowed, blocked, store
\* error); no other step changes a counter, so the three counters add up to
\* the number of such checks under every interleaving.
C26_MetricsExact ==
    [][/\ \A p \in Procs : StoreEnds(p) =>
            /\ MetricsSum(metrics') = MetricsSum(metrics) + 1
            /\ fout'[p].store = "verdict" /\ fout'[p].result.allowed =>
                  metrics'.requests_allowed = metrics.requests_allowed + 1
            /\ fout'[p].store = "verdict" /\ ~fout'[p].result.allowed =>
                  metrics'.requests_blocked = metrics.requests_blocked + 1
            /\ fout'[p].store = "error" =>
                  metrics'.redis_errors = metrics.redis_errors + 1
       /\ (\A p \in Procs : ~StoreEnds(p)) => metrics' = metrics]_vars

\* the three counters have each counted a check while another check is
\* waiting for the store
C26_Witness ==
    /\ metrics.requests_allowed = 1 /\ metrics.requests_blocked = 1
    /\ metrics.redis_errors = 1
    /\ \E p \in Procs : fpc[p] = "store"

\* the store call of p's check is over in this step: the check returns or raises
StoreCallEnds(p) == fpc[p] = "store" /\ fpc'[p] = "idle"

\* C29: a check that reached the store call calls on_decision once and
\* on_error not at all when the store returned a verdict, on_error once and
\* on_decision not at all when the store call raised, whether or not the hook
\* raises; no other step calls a hook.
C29_OneHookPerCheck ==
    [][/\ \A p \in Procs : StoreCallEnds(p) =>
            /\ fout'[p].store = "verdict" =>
                  /\ hooks'.on_decision = hooks.on_decision + 1
                  /\ hooks'.on_error = hooks.on_error
            /\ fout'[p].store # "verdict" =>
                  /\ hooks'.on_error = hooks.on_error + 1
                  /\ hooks'.on_decision = hooks.on_decision
       /\ (\A p \in Procs : ~StoreCallEnds(p)) => hooks' = hooks]_vars

\* C21: a response carries Retry-After if and only if its status is 429.
C21_RetryAfterIff429 ==
    http.phase = "done" => (http.headers.retry_after # -1 <=> http.status = 429)

\* the middleware has answered a request that it checked and that got a result
MiddlewareChecked ==
    /\ http.phase = "done" /\ http.entry = "middleware"
    /\ ~http.excluded /\ http.outcome \in {"verdict", "error"}

\* C22: a request the middleware checks is answered 429 "rate_limited"
\* without the application being invoked when the result rejects; when it
\* admits, the application is invoked and its response carries the rate-limit
\* headers; an excluded request reaches the application without a check.
C22_AdmitOrReject ==
    /\ (MiddlewareChecked /\ ~http.result.allowed) =>
          /\ http.status = 429 /\ http.body = "rate_limited"
          /\ http.app_calls = 0
    /\ (MiddlewareChecked /\ http.result.allowed) =>
          /\ http.app_calls >= 1
          /\ (http.body = "app" /\ web.expose_headers) => http.headers.limit # -1
    /\ (http.phase = "done" /\ http.excluded) =>
          http.checks = 0 /\ http.app_calls = 1

\* every result check_policy can return in this state: the verdicts of the
\* store, the fail-open result and the fail-closed result
AllResults ==
    {o.result : o \in CheckResults(store, clock, web).verdict}
        \cup {FailModeResult(f, cfg.policy) : f \in {"open", "closed"}}

\* the headers add_headers sets for result r
HeadersOf(r) == AddHeaders(NoHeaders, r, cfg.policy, web)

C28_IpSelector ==
    /\ \A i \in 1..Len(sel) : sel[i].principal = sel[i].client.addr
    /\ \A i, j \in 1..Len(sel) :
          (sel[i].client.valid /\ sel[j].client.valid
              /\ sel[i].client.addr # sel[j].client.addr) =>
                  sel[i].principal # sel[j].principal

\* the keys generate_keys returns for an identity, as a set
KeySet(id) == {KeysOf(cfg.policy, id)[i] : i \in RateIdx}

\* C27: generate_keys returns one key per rate, in rate order, of the form
\* app:scope_mode:{scope}:principal:r<i>:<permits>/<per>, pairwise distinct
\* within a call; two calls on the same policy with different (scope,
\* principal) pairs have no key in common.
C27_KeyDerivation ==
    \A a \in cfg.idents :
        /\ Len(KeysOf(cfg.policy, a)) = Len(cfg.policy)
        /\ \A i \in RateIdx :
              KeysOf(cfg.policy, a)[i] =
                  AppName \o ":" \o RouteScope \o ":{" \o a.scope \o "}:" \o a.principal
                      \o ":r" \o ToString(i - 1) \o ":" \o ToString(cfg.policy[i].permits)
                      \o "/" \o cfg.policy[i].per
        /\ Cardinality(KeySet(a)) = Len(cfg.policy)
        /\ \A b \in cfg.idents : a # b => KeySet(a) \cap KeySet(b) = {}

\* the admitted invocations of the record that carry the timestamp t
AdmittedAt(t) == {j \in Admitted : log[j].now = t}

\* C32: every rate the constructor accepts has an emission interval of at
\* least 1 ms, so every admission writes a TAT strictly after the one it read,
\* and no more than 1 + burst checks issued and executed at one instant on a
\* single-rate key are admitted.
C32_EmissionPositive ==
    /\ [](\A i \in RateIdx :
            RateAccepted(cfg.policy[i]) => EmissionIntervalMs(cfg.policy[i]) >= 1)
    /\ []((Len(cfg.policy) = 1 /\ ExecutedWhenIssued) =>
            \A t \in 0..MaxTime :
                Cardinality(AdmittedAt(t)) <= 1 + cfg.policy[1].burst)
    /\ [][\A p \in Procs : (ScriptStep(p) /\ res'[p].allowed) =>
            \A i \in RateIdx :
                LET k == KeyOf(req[p].id, i)
                IN store'[k].tat > TatRead(store, k, req[p].now)]_vars

\* the store that never expires a key: every key still holds the last TAT
\* written to it (a key never written holds 0, which no now_ms is before)
Unexpired(st) == [k \in DOMAIN st |-> [st[k] EXCEPT !.present = TRUE]]

\* the verdicts (allowed, retry_after_ms, remaining) the script can return to
\* the invocation of p on store st, and the TATs the keys hold after it
VerdictsOn(st, p) ==
    {[allowed |-> r.allowed, retry |-> r.retry, remaining |-> r.remaining] :
        r \in UNION {{ScriptReply(v, m) : m \in MatchedSet(v)} :
                v \in {Verdicts(st, KeysOf(cfg.policy, req[p].id),
                                EmissionIntervals(cfg.policy), BurstCapacities(cfg.policy),
                                req[p].now, u) : u \in UndefRemaining}}}

TatsOn(st, p) ==
    LET keys == KeysOf(cfg.policy, req[p].id)
        v == Verdicts(st, keys, EmissionIntervals(cfg.policy),
                      BurstCapacities(cfg.policy), req[p].now, 0)
        after == ScriptWrite(st, keys, v, MaxTtlMs(cfg.policy), clock)
    IN [i \in RateIdx |-> after[keys[i]].tat]

SameAsUnexpired(p) ==
    /\ VerdictsOn(store, p) = VerdictsOn(Unexpired(store), p)
    /\ TatsOn(store, p) = TatsOn(Unexpired(store), p)

\* C31 as stated: in every sequence of checks with non-decreasing now_ms, each
\* check gets from the store that expires its keys the verdict (allowed,
\* retry_after_ms, remaining) it gets from a store that never expires them,
\* and leaves the same TATs.
C31_ExpiryPreservesVerdicts ==
    [][\A p \in Procs : (ScriptStep(p) /\ NowsNonDecreasing') => SameAsUnexpired(p)]_vars

\* C31 as amended: the same, for the sequences in which every check reaches
\* the store at the instant now_ms it carries.
C31_ExpiryPreservesUndelayed ==
    [][\A p \in Procs :
        (ScriptStep(p) /\ NowsNonDecreasing' /\ ExecutedWhenIssued') =>
            SameAsUnexpired(p)]_vars

\* a key was admitted on, expired, and a later undelayed check found it gone
\* and was admitted
C31_Witness ==
    /\ Len(log) >= 2 /\ NowsNonDecreasing /\ ExecutedWhenIssued
    /\ log[1].allowed /\ log[Len(log)].allowed
    /\ log[Len(log)].at >= log[1].at + MaxTtlMs(cfg.policy)
    /\ \E p \in Procs : pc[p] = "replied" /\ res[p].allowed
    /\ EmissionIntervalMs(cfg.policy[1]) >= 1

\* C33: with instances whose clocks differ by a constant skew, the admissions
\* on one single-rate key in any real-time window of one period are at most
\* permits + burst, and the TAT a key holds never decreases.
C33_SkewKeepsCap ==
    /\ [](\A i \in Admitted :
            Cardinality({j \in Admitted :
                            j >= i /\ log[j].at < log[i].at + PeriodMs(cfg.policy[1])})
                <= cfg.policy[1].permits + cfg.policy[1].burst)
    /\ [][\A k \in DOMAIN store :
            (store[k].present /\ store'[k].present) => store'[k].tat >= store[k].tat]_vars

\* C34: the middleware invokes the downstream application at most once per
\* request, and a 503 is sent only when the limiter raised, never for an
\* exception of the application.
C34_AppAtMostOnce ==
    http.entry = "middleware" =>
        /\ http.app_calls <= 1
        /\ (http.phase = "done" /\ http.status = 503) =>
              (http.outcome = "raised" /\ http.app_calls = 0)

\* C35: once shutdown() has closed the connection of a ready limiter, and
\* until a startup() call, the limiter and its adapter stay unconnected and no
\* check is inside storage.connect().
C35_ClosedIsTerminal ==
    lim.closed =>
        /\ ~lim.connected
        /\ ~adapter.connected
        /\ \A p \in Procs : fpc[p] # "connect"

\* C36: failing open after a failed startup, a check called on the unconnected
\* limiter goes through startup; once the store is reachable every check whose
\* own startup did not fail returns a verdict of the store, and a check that
\* waits in startup while the store is reachable leads to a connected limiter,
\* with no startup() call.
C36_RecoversFromDegraded ==
    /\ [][\A p \in Procs :
            /\ (fpc[p] = "idle" /\ fpc'[p] # "idle" /\ ~lim.connected) => fpc'[p] = "startup"
            /\ (CheckEnds(p) /\ fpc[p] = "store" /\ up /\ fout[p].store = "none") =>
                  /\ lim.connected
                  /\ fout'[p].kind = "result" /\ fout'[p].store = "verdict"
                  /\ fout'[p].result \in StoreVerdicts(store)]_vars
    /\ (up /\ \E p \in Procs : fpc[p] = "startup") ~>
            (lim.connected /\ adapter.connected /\ adapter.loaded)

\* a check failed open while the store was down; the store came back, a later
\* check connected and the store rejected a request
C36_Witness ==
    /\ up /\ lim.connected /\ adapter.connects >= 2
    /\ hooks.on_error >= 1 /\ metrics.requests_blocked >= 1
    /\ \A p \in Procs : fcall[p].kind # "startup"
    /\ \E p \in Procs : fout[p].kind = "result" /\ fout[p].store = "verdict"
                        /\ ~fout[p].result.allowed

\* n further checks of id at the present instant, one after the other
Further(n) == [j \in 1..n |-> clock]

\* C37: when a check on a single-rate key is admitted with remaining = r,
\* exactly r further checks at the same instant on that key are admitted and
\* the one after them is rejected.
C37_RemainingIsAdmissible ==
    [][\A p \in Procs :
        (/\ ScriptStep(p) /\ res'[p].allowed
         /\ Len(cfg.policy) = 1 /\ ClaimT(cfg.policy[1]) >= 1
         /\ req[p].now = clock) =>
            RunChecks(store', req[p].id, Further(res'[p].remaining + 1), 1) =
                [j \in 1..(res'[p].remaining + 1) |-> j <= res'[p].remaining]]_vars

\* C38: for every rejection answered, Retry-After in seconds is at least
\* retry_after_ms, and when the rejection is a verdict of the store a check
\* made Retry-After seconds after it, with no admission in between, is
\* admitted.
C38_RetryAfterCoversWait ==
    [][(http.phase # "done" /\ http'.phase = "done" /\ http'.status = 429) =>
        /\ RetryAfterSeconds(http'.result) * 1000 >= http'.result.retry_after_ms
        /\ http'.outcome = "verdict" =>
              WouldAdmit(store', IdA, clock + RetryAfterSeconds(http'.result) * 1000)]_vars

\* C39: every result check_policy returns, from a verdict of the store or from
\* the fail mode, has allowed exactly when retry_after_ms = 0, and a result
\* that is not allowed has remaining = 0 and retry_after_ms > 0.
C39_ResultConsistent ==
    \A p \in Procs :
        fout[p].kind = "result" =>
            /\ fout[p].result.allowed <=> fout[p].result.retry_after_ms = 0
            /\ ~fout[p].result.allowed =>
                  /\ fout[p].result.remaining = 0
                  /\ fout[p].result.retry_after_ms > 0

\* failing closed: one check rejected by the store, another answered with the
\* fail-closed result after a store error
C39_Witness ==
    /\ lim.fail_mode = "closed"
    /\ \E p, q \in Procs :
          /\ fout[p].kind = "result" /\ fout[p].store = "verdict"
          /\ ~fout[p].result.allowed /\ fout[p].result.retry_after_ms \in 1..999
          /\ fout[q].kind = "result" /\ fout[q].store = "error"
          /\ ~fout[q].result.allowed /\ fout[q].result.retry_after_ms = 1000

\* C40: after any sequence of connect() and disconnect() calls, an adapter
\* with _connected = true has an open client and a loaded script SHA, and a
\* connect() that raised has left _connected = false.
C40_AdapterConsistent ==
    /\ adapter.connected => (adapter.client = "open" /\ adapter.loaded)
    /\ (adapter.last = "raised") => ~adapter.connected

====
